---- MODULE Spec2Model ----
(***************************************************************************)
(* A model of the rust_lisp interpreter core: the Expr value model, the    *)
(* Environment with its three tables, the Operator Registry, the macro     *)
(* expander and the Evaluator with its primitive operators.                *)
(*                                                                         *)
(* Evaluator::eval is a recursive Rust function over a &mut Environment    *)
(* and two process-wide statics (OPERATOR_REGISTRY, GENSYM_COUNTER).  It   *)
(* is modelled as the recursive operator eval(ast, w), where the "world"   *)
(* w = [env, g, log, depth, level] carries the environment the Rust code   *)
(* mutates in place (env), the gensym counter (g), and three ghost fields: *)
(* log, the sequence of completed Evaluator::eval / call invocations in    *)
(* completion order; depth, the number of call frames on the Rust stack;   *)
(* level, the number of Evaluator::eval invocations in progress.  Every    *)
(* operator returns [ok, val, w]: Result<Expr, LispError> plus the world   *)
(* it leaves behind.                                                       *)
(***************************************************************************)
EXTENDS Integers, Sequences, FiniteSets, TLC

VARIABLES
    env,                \* the top-level Environment owned by the REPL
    GENSYM_COUNTER,     \* control.rs: static GENSYM_COUNTER
    OPERATOR_REGISTRY,  \* mod.rs: static OPERATOR_REGISTRY (name -> operator)
    op,                 \* ghost: the operation performed by the last step
    form,               \* ghost: the expression handed to the last step
    text,               \* ghost: the text handed to the reader
    result,             \* ghost: [ok, val] returned by the last step
    prev,               \* ghost: env before the last step
    log,                \* ghost: the invocations made by the last step
    written,            \* ghost: last value written per table and name
    steps,              \* ghost: number of steps taken
    running,            \* main.rs: the loop in progress, or "panicked"
    line,               \* main.rs: the line the loop read last
    input_accumulated,  \* main.rs: the loop's local input_accumulated
    open_parens,        \* main.rs: the loop's local open_parens
    locked,             \* the statics whose Mutex is locked
    stack               \* the calls in progress of an evaluation followed
                        \* lock by lock, innermost last

\* the locals of the loop of main.rs
main == <<running, line, input_accumulated, open_parens>>

\* the two Mutexes and the calls that take them
locks == <<locked, stack>>

vars == <<env, GENSYM_COUNTER, OPERATOR_REGISTRY, op, form, text, result, prev,
          log, written, steps, main, locks>>

----------------------------------------------------------------------------
(* Bounds of the model *)

\* top-level operations per behaviour
MaxSteps == 2
\* call frames on the Rust stack before the process dies of stack overflow
MaxDepth == 4
\* gensym calls per behaviour
MaxGensym == 4

----------------------------------------------------------------------------
(* expression.rs: enum Expr.  Macro is the variant macro_expander.rs uses. *)

Symbol(s) == [tag |-> "Symbol", name |-> s]
Number(n) == [tag |-> "Number", n |-> n]
Str(s) == [tag |-> "Str", s |-> s]
List(xs) == [tag |-> "List", items |-> xs]
DottedPair(a, b) == [tag |-> "DottedPair", car |-> a, cdr |-> b]
Macro(params, body) == [tag |-> "Macro", params |-> params, body |-> body]

Abs(n) == IF n < 0 THEN -n ELSE n

RECURSIVE Gcd(_, _)
Gcd(a, b) == IF b = 0 THEN a ELSE Gcd(b, a % b)

\* An f64 is modelled as the exact rational num/den in lowest terms, den > 0.
\* The model is exact for the values the inputs below produce (small dyadic
\* rationals); rounding of other quotients is not modelled.
F64(num, den) ==
    LET g == Gcd(Abs(num), Abs(den))
        s == IF den < 0 THEN -1 ELSE 1
    IN [num |-> (s * num) \div g, den |-> (s * den) \div g]

Float(num, den) ==
    LET q == F64(num, den) IN [tag |-> "Float", num |-> q.num, den |-> q.den]

NilList == List(<<>>)

\* exception.rs: LispError
LispError(message) == [tag |-> "LispError", message |-> message]

\* The process dying of stack overflow: not a LispError, nothing catches it.
StackOverflow == [tag |-> "StackOverflow"]

Ok(v, w) == [ok |-> TRUE, val |-> v, w |-> w]
Err(message, w) == [ok |-> FALSE, val |-> LispError(message), w |-> w]
Abort(w) == [ok |-> FALSE, val |-> StackOverflow, w |-> w]

----------------------------------------------------------------------------
(* environment.rs: struct Environment and its accessors.  A HashMap is a   *)
(* function whose domain is the set of keys present; None is modelled by   *)
(* the record [some |-> FALSE].                                            *)

None == [some |-> FALSE]
Some(v) == [some |-> TRUE, v |-> v]

Put(map, k, v) == [x \in DOMAIN map \cup {k} |-> IF x = k THEN v ELSE map[x]]
EmptyMap == [x \in {} |-> NilList]

set_symbol(e, symbol, value) == [e EXCEPT !.symbols = Put(@, symbol, value)]

\* a lookup that falls back on the function table for an unbound symbol
get_symbol_or_function(e, symbol) ==
    IF symbol \in DOMAIN e.symbols THEN Some(e.symbols[symbol])
    ELSE IF symbol \in DOMAIN e.functions THEN Some(e.functions[symbol])
    ELSE None

get_symbol(e, symbol) ==
    IF symbol \in DOMAIN e.symbols THEN Some(e.symbols[symbol]) ELSE None

set_function(e, name, func) == [e EXCEPT !.functions = Put(@, name, func)]

get_function(e, name) ==
    IF name \in DOMAIN e.functions THEN Some(e.functions[name]) ELSE None

set_macro(e, name, macro_def) == [e EXCEPT !.macros = Put(@, name, macro_def)]

get_macro(e, name) ==
    IF name \in DOMAIN e.macros THEN Some(e.macros[name]) ELSE None

\* Environment::initialize (the registry it fills is RegistryInit below)
initialize ==
    LET e0 == [symbols |-> EmptyMap, functions |-> EmptyMap, macros |-> EmptyMap]
        e1 == set_symbol(e0, "T", Symbol("T"))
        e2 == set_symbol(e1, "t", Symbol("T"))
        e3 == set_symbol(e2, "NIL", NilList)
    IN set_symbol(e3, "nil", NilList)

----------------------------------------------------------------------------
(* operator/mod.rs: the Operator Registry.  An OperatorFn is modelled by   *)
(* the name of the Rust function it points to.                             *)

\* mod.rs initialize(): the register_* functions of the six operator files
RegistryInit ==
    [name \in {"+", "-", "*", "/", ">", "gt", ">=", "gte", "<", "lt", "<=",
               "lte", "eq", "ne", "cond", "not", "gensym", "defun", "lambda",
               "progn", "cons", "car", "cdr", "length", "quote", "setf"} |->
        CASE name = "+" -> "eval_add"
          [] name = "-" -> "eval_subtract"
          [] name = "*" -> "eval_multiply"
          [] name = "/" -> "eval_divide"
          [] name \in {">", "gt"} -> "eval_greater"
          [] name \in {">=", "gte"} -> "eval_greater_equal"
          [] name \in {"<", "lt"} -> "eval_less"
          [] name \in {"<=", "lte"} -> "eval_less_equal"
          [] name = "eq" -> "eval_equal"
          [] name = "ne" -> "eval_not_equal"
          [] name = "cond" -> "eval_cond"
          [] name = "not" -> "eval_not"
          [] name = "gensym" -> "eval_gensym"
          [] name = "defun" -> "eval_defun"
          [] name = "lambda" -> "eval_lambda"
          [] name = "progn" -> "eval_progn"
          [] name = "cons" -> "eval_cons"
          [] name = "car" -> "eval_car"
          [] name = "cdr" -> "eval_cdr"
          [] name = "length" -> "eval_length"
          [] name = "quote" -> "eval_quote"
          [] name = "setf" -> "eval_setf"]

\* OperatorRegistry::get
OperatorRegistry_get(name) ==
    IF name \in DOMAIN OPERATOR_REGISTRY
    THEN Some(OPERATOR_REGISTRY[name])
    ELSE None

----------------------------------------------------------------------------
(* Ghost bookkeeping of the world record *)

\* One completed invocation of Evaluator::eval, eval_function_call or
\* eval_lambda_call: what it was given, the frame it ran in, what it returned
\* and the environment of its frame before and after.
LogEntry(fn, ast, w, r) ==
    [fn |-> fn, ast |-> ast, depth |-> w.depth, level |-> w.level,
     envIn |-> w.env, envOut |-> r.w.env, gIn |-> w.g, ok |-> r.ok,
     val |-> r.val]

Logged(fn, ast, w, r) == [r EXCEPT !.w.log = Append(@, LogEntry(fn, ast, w, r))]

\* let mut local_env = env.clone(): the callee works on a copy, one frame up
EnterFrame(w) == [w EXCEPT !.depth = @ + 1]

\* the world a top-level call of Evaluator::eval starts in
World(e, g) == [env |-> e, g |-> g, log |-> <<>>, depth |-> 0, level |-> 0]

\* the callee's frame is dropped: the caller's env is the one it had, the
\* process-wide state (gensym counter, log) is the one the callee left
LeaveFrame(w, r) == [r EXCEPT !.w.env = w.env, !.w.depth = w.depth]

----------------------------------------------------------------------------
(* The Evaluator and the primitive operators call each other. *)

RECURSIVE eval(_, _)
RECURSIVE apply_operator(_, _, _)
RECURSIVE bind_params(_, _, _, _)
RECURSIVE eval_function_call(_, _, _)
RECURSIVE eval_lambda_call(_, _, _)
RECURSIVE eval_progn_from(_, _, _, _)
RECURSIVE eval_cond_from(_, _, _)
RECURSIVE arith_rest(_, _, _, _, _, _)

\* Evaluator::eval_tree is called by set.rs and defined in no source file;
\* the evaluation entry point the specification describes is eval.
eval_tree(ast, w) == eval(ast, w)

----------------------------------------------------------------------------
(* operator/set.rs *)

\* eval_setf claiming the binding before the value is known: the symbol is
\* bound to the empty list first, so a failing value leaves that binding
eval_setf_bind_first(args, w) ==
    IF Len(args) # 2 THEN Err("setf requires exactly two arguments", w)
    ELSE IF args[1].tag # "Symbol"
    THEN Err("setf: first argument must be a symbol", w)
    ELSE LET value == eval_tree(args[2],
                          [w EXCEPT !.env = set_symbol(@, args[1].name, NilList)])
         IN IF ~value.ok THEN value
            ELSE Ok(value.val,
                    [value.w EXCEPT !.env = set_symbol(@, args[1].name, value.val)])

eval_setf(args, w) ==
    IF Len(args) # 2 THEN Err("setf requires exactly two arguments", w)
    ELSE IF args[1].tag # "Symbol"
    THEN Err("setf: first argument must be a symbol", w)
    ELSE LET value == eval_tree(args[2], w)
         IN IF ~value.ok THEN value
            ELSE Ok(value.val,
                    [value.w EXCEPT !.env = set_symbol(@, args[1].name, value.val)])

----------------------------------------------------------------------------
(* operator/lambda.rs *)

\* eval_lambda closing over the defining environment: a body that is a Symbol
\* bound there (and not a parameter) is replaced by its quoted current value
eval_lambda_capturing(args, w) ==
    IF Len(args) < 2
    THEN Err("lambda requires at least 2 arguments: params, body", w)
    ELSE IF args[1].tag # "List"
    THEN Err("lambda: first argument must be a list of parameters", w)
    ELSE LET body == IF Len(args) = 2 THEN args[2]
                     ELSE List(<<Symbol("progn")>> \o Tail(args))
             closed == IF /\ body.tag = "Symbol"
                          /\ body.name \in DOMAIN w.env.symbols
                          /\ \A k \in 1..Len(args[1].items) : args[1].items[k] # body
                       THEN List(<<Symbol("quote"), w.env.symbols[body.name]>>)
                       ELSE body
         IN Ok(List(<<Symbol("lambda"), List(args[1].items), closed>>), w)

eval_lambda(args, w) ==
    IF Len(args) < 2
    THEN Err("lambda requires at least 2 arguments: params, body", w)
    ELSE IF args[1].tag # "List"
    THEN Err("lambda: first argument must be a list of parameters", w)
    ELSE LET body == IF Len(args) = 2 THEN args[2]
                     ELSE List(<<Symbol("progn")>> \o Tail(args))
         IN Ok(List(<<Symbol("lambda"), List(args[1].items), body>>), w)

\* the for loop of eval_progn, from argument i on, result being the value so far
eval_progn_from(args, i, result_, w) ==
    IF i > Len(args) THEN Ok(result_, w)
    ELSE LET r == eval(args[i], w)
         IN IF ~r.ok THEN r ELSE eval_progn_from(args, i + 1, r.val, r.w)

\* a progn that takes back what its forms wrote when one of them fails
eval_progn_all_or_nothing(args, w) ==
    LET r == eval_progn_from(args, 1, NilList, w)
    IN IF r.ok THEN r ELSE [r EXCEPT !.w.env = w.env]

eval_progn(args, w) == eval_progn_from(args, 1, NilList, w)

\* the loop for (param, arg) in params.iter().zip(args.iter()) of
\* eval_lambda_call and eval_function_call, from pair i on; local is the
\* world of the cloned environment
bind_params(params, args, i, local) ==
    IF i > Len(params) THEN Ok(NilList, local)
    ELSE IF params[i].tag = "Symbol"
    THEN LET value == eval(args[i], local)
         IN IF ~value.ok THEN value
            ELSE bind_params(params, args, i + 1,
                     [value.w EXCEPT !.env = set_symbol(@, params[i].name, value.val)])
    ELSE Err("Invalid parameter name", local)

eval_lambda_call(lambda_parts, args, w) ==
    LET r ==
        IF Len(lambda_parts) # 2 THEN Err("Invalid lambda expression", w)
        ELSE IF lambda_parts[1].tag # "List" THEN Err("Invalid parameter list", w)
        ELSE LET params == lambda_parts[1].items
             IN IF Len(params) # Len(args)
                THEN Err("Argument count does not match parameter count", w)
                ELSE IF w.depth >= MaxDepth THEN Abort(w)
                ELSE LET bound == bind_params(params, args, 1, EnterFrame(w))
                     IN IF ~bound.ok THEN LeaveFrame(w, bound)
                        ELSE LeaveFrame(w, eval(lambda_parts[2], bound.w))
    IN Logged("eval_lambda_call",
              List(<<List(<<Symbol("lambda")>> \o lambda_parts)>> \o args), w, r)

eval_defun(args, w) ==
    IF Len(args) # 3
    THEN Err("defun requires exactly 3 arguments: name, params, body", w)
    ELSE IF args[1].tag # "Symbol"
    THEN Err("defun: first argument must be a symbol", w)
    ELSE IF args[2].tag # "List"
    THEN Err("defun: second argument must be a list", w)
    ELSE Ok(Symbol(args[1].name),
            [w EXCEPT !.env = set_function(@, args[1].name,
                List(<<Symbol("lambda"), List(args[2].items), args[3]>>))])

\* eval_function_call working on the caller's environment instead of a clone
eval_function_call_no_clone(func_name, args, w) ==
    LET function == get_function(w.env, func_name)
        r ==
        IF ~function.some THEN Err("Undefined function: " \o func_name, w)
        ELSE IF function.v.tag = "List"
        THEN LET list == function.v.items
             IN IF Len(list) # 3 \/ list[1] # Symbol("lambda")
                THEN Err("Invalid function definition", w)
                ELSE IF list[2].tag # "List" THEN Err("Invalid parameter list", w)
                ELSE IF Len(list[2].items) # Len(args)
                THEN Err("Argument count does not match parameter count", w)
                ELSE IF w.depth >= MaxDepth THEN Abort(w)
                ELSE LET bound == bind_params(list[2].items, args, 1, EnterFrame(w))
                         done == IF ~bound.ok THEN bound ELSE eval(list[3], bound.w)
                     IN [done EXCEPT !.w.depth = w.depth]
        ELSE Err("Function is not defined correctly", w)
    IN Logged("eval_function_call", List(<<Symbol(func_name)>> \o args), w, r)

eval_function_call(func_name, args, w) ==
    LET function == get_function(w.env, func_name)
        r ==
        IF ~function.some THEN Err("Undefined function: " \o func_name, w)
        ELSE IF function.v.tag = "List"
        THEN LET list == function.v.items
             IN IF Len(list) # 3 \/ list[1] # Symbol("lambda")
                THEN Err("Invalid function definition", w)
                ELSE IF list[2].tag # "List" THEN Err("Invalid parameter list", w)
                ELSE IF Len(list[2].items) # Len(args)
                THEN Err("Argument count does not match parameter count", w)
                ELSE IF w.depth >= MaxDepth THEN Abort(w)
                ELSE LET bound == bind_params(list[2].items, args, 1, EnterFrame(w))
                     IN IF ~bound.ok THEN LeaveFrame(w, bound)
                        ELSE LeaveFrame(w, eval(list[3], bound.w))
        ELSE Err("Function is not defined correctly", w)
    IN Logged("eval_function_call", List(<<Symbol(func_name)>> \o args), w, r)

----------------------------------------------------------------------------
(* operator/control.rs *)

\* the match on the test's Result in eval_cond: true for Ok(Symbol t/T),
\* Ok(non-zero Number), Ok(non-empty List); false for every other Ok and
\* for every Err
cond_test_value(t) ==
    /\ t.ok
    /\ \/ t.val.tag = "Symbol" /\ t.val.name \in {"t", "T"}
       \/ t.val.tag = "Number" /\ t.val.n # 0
       \/ t.val.tag = "List" /\ t.val.items # <<>>

\* the for loop with the conventional one-element clause: its value is
\* returned only when truthy, otherwise the next clause is tried
eval_cond_from_one_if_truthy(conditions, i, w) ==
    IF i > Len(conditions) THEN Err("No true condition in cond", w)
    ELSE IF conditions[i].tag # "List" THEN Err("Cond clause must be a list", w)
    ELSE LET pair == conditions[i].items
         IN IF Len(pair) = 1
            THEN LET only == eval(pair[1], w)
                 IN IF ~only.ok \/ cond_test_value(only) THEN only
                    ELSE eval_cond_from(conditions, i + 1, only.w)
            ELSE IF Len(pair) = 2
            THEN LET test == eval(pair[1], w)
                 IN IF test.val.tag = "StackOverflow" THEN test
                    ELSE IF cond_test_value(test) THEN eval(pair[2], test.w)
                    ELSE eval_cond_from(conditions, i + 1, test.w)
            ELSE Err("Each cond clause must have exactly one or two elements", w)

\* the for loop with the test's error propagated (a ? on the test)
eval_cond_from_test_propagates(conditions, i, w) ==
    IF i > Len(conditions) THEN Err("No true condition in cond", w)
    ELSE IF conditions[i].tag # "List" THEN Err("Cond clause must be a list", w)
    ELSE LET pair == conditions[i].items
         IN IF Len(pair) = 1 THEN eval(pair[1], w)
            ELSE IF Len(pair) = 2
            THEN LET test == eval(pair[1], w)
                 IN IF ~test.ok THEN test
                    ELSE IF cond_test_value(test) THEN eval(pair[2], test.w)
                    ELSE eval_cond_from(conditions, i + 1, test.w)
            ELSE Err("Each cond clause must have exactly one or two elements", w)

\* the for loop of eval_cond, from clause i on
eval_cond_from(conditions, i, w) ==
    IF i > Len(conditions) THEN Err("No true condition in cond", w)
    ELSE IF conditions[i].tag # "List" THEN Err("Cond clause must be a list", w)
    ELSE LET pair == conditions[i].items
         IN IF Len(pair) = 1 THEN eval(pair[1], w)
            ELSE IF Len(pair) = 2
            THEN LET test == eval(pair[1], w)
                 IN IF test.val.tag = "StackOverflow" THEN test
                    ELSE IF cond_test_value(test) THEN eval(pair[2], test.w)
                    ELSE eval_cond_from(conditions, i + 1, test.w)
            ELSE Err("Each cond clause must have exactly one or two elements", w)

eval_cond(conditions, w) == eval_cond_from(conditions, 1, w)

\* a not that evaluates its argument and tests the value
eval_not_of_value(args, w) ==
    IF Len(args) # 1 THEN Err("not expects exactly one argument", w)
    ELSE LET value == eval(args[1], w)
         IN IF ~value.ok THEN value
            ELSE IF value.val \in {Symbol("nil"), Number(0), NilList}
            THEN Ok(Symbol("t"), value.w)
            ELSE Ok(NilList, value.w)

\* the argument is matched as it stands, eval is not called
eval_not(args, w) ==
    IF Len(args) # 1 THEN Err("not expects exactly one argument", w)
    ELSE LET is_false ==
                 \/ args[1].tag = "Symbol" /\ args[1].name = "nil"
                 \/ args[1].tag = "Number" /\ args[1].n = 0
                 \/ args[1].tag = "List" /\ args[1].items = <<>>
         IN IF is_false THEN Ok(Symbol("t"), w) ELSE Ok(NilList, w)

\* a gensym that names the symbol after the counter and leaves it alone
eval_gensym_without_add(args, w) == Ok(Symbol("#:G" \o ToString(w.g)), w)

\* counter.fetch_add(1): the value before the increment names the symbol
eval_gensym(args, w) ==
    Ok(Symbol("#:G" \o ToString(w.g)), [w EXCEPT !.g = @ + 1])

----------------------------------------------------------------------------
(* operator/arithmetic.rs.  The accumulator is an f64. *)

FAdd(a, b) == F64(a.num * b.den + b.num * a.den, a.den * b.den)
FSub(a, b) == F64(a.num * b.den - b.num * a.den, a.den * b.den)
FMul(a, b) == F64(a.num * b.num, a.den * b.den)
FDiv(a, b) == F64(a.num * b.den, a.den * b.num)
FLess(a, b) == a.num * b.den < b.num * a.den

\* n as f64 of a Number, the f64 of a Float
AsF64(v) == IF v.tag = "Number" THEN F64(v.n, 1) ELSE F64(v.num, v.den)

IsNumeric(v) == v.tag \in {"Number", "Float"}

\* the tail of the four operators: Float if a Float was seen or the result
\* has a fractional part, Number otherwise
arith_result(acc, has_float, w) ==
    IF has_float \/ acc.den # 1
    THEN Ok(Float(acc.num, acc.den), w)
    ELSE Ok(Number(acc.num), w)

\* the for loop of eval_add / eval_subtract / eval_multiply / eval_divide,
\* from argument i on
arith_rest(operator, args, i, acc, has_float, w) ==
    IF i > Len(args) THEN arith_result(acc, has_float, w)
    ELSE LET r == eval(args[i], w)
         IN IF ~r.ok THEN r
            ELSE IF ~IsNumeric(r.val) THEN Err("Invalid number", r.w)
            ELSE IF operator = "/" /\ AsF64(r.val).num = 0
            THEN Err("Division by zero", r.w)
            ELSE arith_rest(operator, args, i + 1,
                     CASE operator = "+" -> FAdd(acc, AsF64(r.val))
                       [] operator = "-" -> FSub(acc, AsF64(r.val))
                       [] operator = "*" -> FMul(acc, AsF64(r.val))
                       [] operator = "/" -> FDiv(acc, AsF64(r.val)),
                     has_float \/ r.val.tag = "Float", r.w)

eval_add(args, w) == arith_rest("+", args, 1, F64(0, 1), FALSE, w)

eval_multiply(args, w) == arith_rest("*", args, 1, F64(1, 1), FALSE, w)

\* eval_subtract and eval_divide: the first argument is evaluated apart, and
\* has_float starts as matches!(first, Expr::Float(_)) on the argument
\* expression itself, not on its value
arith_first(operator, message, args, w) ==
    IF Len(args) = 0 THEN Err(message, w)
    ELSE LET r == eval(args[1], w)
         IN IF ~r.ok THEN r
            ELSE IF ~IsNumeric(r.val) THEN Err("Invalid number", r.w)
            ELSE arith_rest(operator, args, 2, AsF64(r.val),
                            args[1].tag = "Float", r.w)

eval_subtract(args, w) ==
    arith_first("-", "Subtraction requires at least one argument", args, w)

eval_divide(args, w) ==
    arith_first("/", "Division requires at least one argument", args, w)

----------------------------------------------------------------------------
(* operator/comparison.rs *)

Truth(b, w) == IF b THEN Ok(Symbol("t"), w) ELSE Ok(NilList, w)

\* eval_greater, eval_greater_equal, eval_less, eval_less_equal share one
\* body: both arguments evaluated left then right, then the match on the
\* pair of values (Number and Float in all four combinations).  The error
\* messages quote the operator name in backquotes, left out here.
compare_numbers(name, args, w) ==
    IF Len(args) # 2 THEN Err(name \o " expects exactly two arguments", w)
    ELSE LET left == eval(args[1], w)
         IN IF ~left.ok THEN left
            ELSE LET right == eval(args[2], left.w)
                 IN IF ~right.ok THEN right
                    ELSE IF IsNumeric(left.val) /\ IsNumeric(right.val)
                    THEN LET l == AsF64(left.val)
                             r == AsF64(right.val)
                         IN Truth(CASE name = ">" -> FLess(r, l)
                                    [] name = ">=" -> ~FLess(l, r)
                                    [] name = "<" -> FLess(l, r)
                                    [] name = "<=" -> ~FLess(r, l), right.w)
                    ELSE Err(name \o " arguments must be numbers", right.w)

eval_greater(args, w) == compare_numbers(">", args, w)
eval_greater_equal(args, w) == compare_numbers(">=", args, w)
eval_less(args, w) == compare_numbers("<", args, w)
eval_less_equal(args, w) == compare_numbers("<=", args, w)

\* (l - r).abs() < f64::EPSILON.  Every f64 of the model is a rational whose
\* denominator is far below 2^52, so two of them differ by less than EPSILON
\* only when they are equal.
FloatClose(l, r) == FSub(l, r).num = 0

\* Result<Expr, LispError> == Result<Expr, LispError>
ResultEq(a, b) == a.ok = b.ok /\ a.val = b.val

\* the match of eval_equal on the two values: TRUE when it yields Symbol t.
\* Two Symbols are evaluated a second time and the two Results compared;
\* std::ptr::eq on two Lists compares the addresses of the two local values
\* left and right, which are never the same object.
equal_match(left, right, w) ==
    CASE left.tag = "Number" /\ right.tag = "Number" -> left.n = right.n
      [] IsNumeric(left) /\ IsNumeric(right)
         /\ "Float" \in {left.tag, right.tag} ->
            FloatClose(AsF64(left), AsF64(right))
      [] left.tag = "Symbol" /\ right.tag = "Symbol" ->
            ResultEq(eval(left, w), eval(right, w))
      [] left.tag = "List" /\ right.tag = "List" -> FALSE
      [] OTHER -> FALSE

\* the world after the match: the two re-evaluations of Symbols leave the
\* environment alone and are logged
equal_world(left, right, w) ==
    IF left.tag = "Symbol" /\ right.tag = "Symbol"
    THEN eval(right, eval(left, w).w).w
    ELSE w

eval_equal(args, w) ==
    IF Len(args) # 2 THEN Err("eq expects exactly two arguments", w)
    ELSE LET left == eval(args[1], w)
         IN IF ~left.ok THEN left
            ELSE LET right == eval(args[2], left.w)
                 IN IF ~right.ok THEN right
                    ELSE Truth(equal_match(left.val, right.val, right.w),
                               equal_world(left.val, right.val, right.w))

eval_not_equal(args, w) ==
    IF Len(args) # 2 THEN Err("ne expects exactly two arguments", w)
    ELSE LET left == eval(args[1], w)
         IN IF ~left.ok THEN left
            ELSE LET right == eval(args[2], left.w)
                 IN IF ~right.ok THEN right
                    ELSE Truth(~equal_match(left.val, right.val, right.w),
                               equal_world(left.val, right.val, right.w))

----------------------------------------------------------------------------
(* operator/list.rs *)

\* a cons that inserts into the list of the variable given as second argument
eval_cons_in_place(args, w) ==
    IF Len(args) # 2 THEN Err("cons requires exactly two arguments", w)
    ELSE LET first == eval(args[1], w)
         IN IF ~first.ok THEN first
            ELSE LET second == eval(args[2], first.w)
                     list == List(<<first.val>> \o second.val.items)
                 IN IF ~second.ok THEN second
                    ELSE IF second.val.tag = "List"
                    THEN Ok(list, IF args[2].tag = "Symbol"
                                  THEN [second.w EXCEPT
                                            !.env = set_symbol(@, args[2].name, list)]
                                  ELSE second.w)
                    ELSE Ok(DottedPair(first.val, second.val), second.w)

eval_cons(args, w) ==
    IF Len(args) # 2 THEN Err("cons requires exactly two arguments", w)
    ELSE LET first == eval(args[1], w)
         IN IF ~first.ok THEN first
            ELSE LET second == eval(args[2], first.w)
                 IN IF ~second.ok THEN second
                    ELSE IF second.val.tag = "List"
                    THEN Ok(List(<<first.val>> \o second.val.items), second.w)
                    ELSE Ok(DottedPair(first.val, second.val), second.w)

eval_car(args, w) ==
    IF Len(args) # 1 THEN Err("car requires exactly one argument", w)
    ELSE LET list == eval(args[1], w)
         IN IF ~list.ok THEN list
            ELSE IF list.val.tag = "List"
            THEN IF list.val.items # <<>> THEN Ok(list.val.items[1], list.w)
                 ELSE Ok(NilList, list.w)
            ELSE Err("car: argument must be a list", list.w)

eval_cdr(args, w) ==
    IF Len(args) # 1 THEN Err("cdr requires exactly one argument", w)
    ELSE LET list == eval(args[1], w)
         IN IF ~list.ok THEN list
            ELSE IF list.val.tag = "List"
            THEN IF Len(list.val.items) > 1
                 THEN Ok(List(Tail(list.val.items)), list.w)
                 ELSE Ok(NilList, list.w)
            ELSE Err("cdr: argument must be a list", list.w)

eval_length(args, w) ==
    IF Len(args) # 1 THEN Err("length requires exactly one argument", w)
    ELSE LET list_expr == eval(args[1], w)
         IN IF ~list_expr.ok THEN list_expr
            ELSE IF list_expr.val.tag = "List"
            THEN Ok(Number(Len(list_expr.val.items)), list_expr.w)
            ELSE Err("length: argument is not a list", list_expr.w)

eval_quote(args, w) ==
    IF Len(args) # 1 THEN Err("quote requires exactly one argument", w)
    ELSE Ok(args[1], w)

----------------------------------------------------------------------------
(* evaluator.rs *)

\* operator_fn(&list[1..], env): the call through the function pointer
apply_operator(operator_fn, args, w) ==
    CASE operator_fn = "eval_add" -> eval_add(args, w)
      [] operator_fn = "eval_subtract" -> eval_subtract(args, w)
      [] operator_fn = "eval_multiply" -> eval_multiply(args, w)
      [] operator_fn = "eval_divide" -> eval_divide(args, w)
      [] operator_fn = "eval_greater" -> eval_greater(args, w)
      [] operator_fn = "eval_greater_equal" -> eval_greater_equal(args, w)
      [] operator_fn = "eval_less" -> eval_less(args, w)
      [] operator_fn = "eval_less_equal" -> eval_less_equal(args, w)
      [] operator_fn = "eval_equal" -> eval_equal(args, w)
      [] operator_fn = "eval_not_equal" -> eval_not_equal(args, w)
      [] operator_fn = "eval_cond" -> eval_cond(args, w)
      [] operator_fn = "eval_not" -> eval_not(args, w)
      [] operator_fn = "eval_gensym" -> eval_gensym(args, w)
      [] operator_fn = "eval_defun" -> eval_defun(args, w)
      [] operator_fn = "eval_lambda" -> eval_lambda(args, w)
      [] operator_fn = "eval_progn" -> eval_progn(args, w)
      [] operator_fn = "eval_cons" -> eval_cons(args, w)
      [] operator_fn = "eval_car" -> eval_car(args, w)
      [] operator_fn = "eval_cdr" -> eval_cdr(args, w)
      [] operator_fn = "eval_length" -> eval_length(args, w)
      [] operator_fn = "eval_quote" -> eval_quote(args, w)
      [] operator_fn = "eval_setf" -> eval_setf(args, w)

\* an Evaluator::eval that looks a head Symbol up in the function table first
\* and in the Operator Registry only when no function has that name
eval_function_table_first(ast, w) ==
    LET inner == [w EXCEPT !.level = @ + 1]
        r ==
        CASE ast.tag = "Symbol" ->
                LET value == get_symbol(inner.env, ast.name)
                IN IF value.some THEN Ok(value.v, inner)
                   ELSE Err("Undefined symbol: " \o ast.name, inner)
          [] ast.tag \in {"Number", "Float", "Str"} -> Ok(ast, inner)
          [] ast.tag = "List" ->
                IF ast.items = <<>> THEN Ok(NilList, inner)
                ELSE LET list == ast.items
                         first == list[1]
                     IN CASE first.tag = "Symbol" ->
                                LET operator_fn == OperatorRegistry_get(first.name)
                                IN IF get_function(inner.env, first.name).some
                                      \/ ~operator_fn.some
                                   THEN eval_function_call(first.name, Tail(list), inner)
                                   ELSE apply_operator(operator_fn.v, Tail(list), inner)
                          [] first.tag = "List" ->
                                LET func == eval(first, inner)
                                IN IF ~func.ok THEN func
                                   ELSE IF func.val.tag = "List"
                                   THEN IF /\ Len(func.val.items) >= 3
                                           /\ func.val.items[1] = Symbol("lambda")
                                        THEN eval_lambda_call(Tail(func.val.items),
                                                              Tail(list), func.w)
                                        ELSE Err("Invalid lambda", func.w)
                                   ELSE Err("Invalid expression", func.w)
                          [] OTHER ->
                                Err("Cannot evaluate a list without a valid operator", inner)
    IN Logged("eval", ast, w, [r EXCEPT !.w.level = w.level])

\* Evaluator::eval.  The match has no arm for a DottedPair or Macro ast; the
\* reader never builds one, and the model never evaluates one.
eval(ast, w) ==
    LET inner == [w EXCEPT !.level = @ + 1]
        r ==
        CASE ast.tag = "Symbol" ->
                LET value == get_symbol(inner.env, ast.name)
                IN IF value.some THEN Ok(value.v, inner)
                   ELSE Err("Undefined symbol: " \o ast.name, inner)
          [] ast.tag \in {"Number", "Float", "Str"} -> Ok(ast, inner)
          [] ast.tag = "List" ->
                IF ast.items = <<>> THEN Ok(NilList, inner)
                ELSE LET list == ast.items
                         first == list[1]
                     IN CASE first.tag = "Symbol" ->
                                LET operator_fn == OperatorRegistry_get(first.name)
                                IN IF operator_fn.some
                                   THEN apply_operator(operator_fn.v, Tail(list), inner)
                                   ELSE eval_function_call(first.name, Tail(list), inner)
                          [] first.tag = "List" ->
                                LET func == eval(first, inner)
                                IN IF ~func.ok THEN func
                                   ELSE IF func.val.tag = "List"
                                   THEN IF /\ Len(func.val.items) >= 3
                                           /\ func.val.items[1] = Symbol("lambda")
                                        THEN eval_lambda_call(Tail(func.val.items),
                                                              Tail(list), func.w)
                                        ELSE Err("Invalid lambda", func.w)
                                   ELSE Err("Invalid expression", func.w)
                          [] OTHER ->
                                Err("Cannot evaluate a list without a valid operator", inner)
    IN Logged("eval", ast, w, [r EXCEPT !.w.level = w.level])

----------------------------------------------------------------------------
(* macro_expander.rs.  The results carry no world: expansion reads the     *)
(* macro table and changes nothing.  The error messages of this file are   *)
(* Chinese in the source and given in English here.                        *)

\* nested expansions of macro calls before the process dies of stack overflow
MaxExpand == 3

ROk(v) == [ok |-> TRUE, val |-> v]
RErr(message) == [ok |-> FALSE, val |-> LispError(message)]
RAbort == [ok |-> FALSE, val |-> StackOverflow]

RECURSIVE expand_macro(_, _, _)

\* a parse_defmacro that stores the expansion of the body
parse_defmacro_expanding_body(list, e) ==
    IF Len(list) < 4 \/ list[2].tag # "Symbol" \/ list[3].tag # "List"
    THEN [ok |-> FALSE, val |-> LispError("defmacro: malformed"), env |-> e]
    ELSE LET body == expand_macro(list[4], e, 3)
         IN [ok |-> body.ok, val |-> IF body.ok THEN NilList ELSE body.val,
             env |-> IF body.ok
                     THEN set_macro(e, list[2].name, Macro(list[3].items, body.val))
                     ELSE e]

parse_defmacro(list, e) ==
    IF Len(list) < 4
    THEN [ok |-> FALSE, val |-> LispError("defmacro: needs at least three arguments"),
          env |-> e]
    ELSE IF list[2].tag # "Symbol"
    THEN [ok |-> FALSE, val |-> LispError("defmacro: first argument must be a symbol"),
          env |-> e]
    ELSE IF list[3].tag # "List"
    THEN [ok |-> FALSE,
          val |-> LispError("defmacro: second argument must be a parameter list"),
          env |-> e]
    ELSE [ok |-> TRUE, val |-> NilList,
          env |-> set_macro(e, list[2].name, Macro(list[3].items, list[4]))]

RECURSIVE expand_each(_, _, _, _)
RECURSIVE substitute(_, _)
RECURSIVE substitute_each(_, _, _)
RECURSIVE expand_quasiquote(_, _)
RECURSIVE expand_quasiquote_each(_, _, _)
RECURSIVE insert_substitutions(_, _, _, _)

\* the loop of expand that fills the HashMap, from pair i on: parameters
\* that are not Symbols are skipped, a repeated name keeps the last argument
insert_substitutions(params, args, i, substitutions) ==
    IF i > Len(params) THEN substitutions
    ELSE insert_substitutions(params, args, i + 1,
             IF params[i].tag = "Symbol"
             THEN Put(substitutions, params[i].name, args[i])
             ELSE substitutions)

\* the for loop of expand_quasiquote over the items of a list, from item i
expand_quasiquote_each(list, i, substitutions) ==
    IF i > Len(list) THEN ROk(<<>>)
    ELSE LET item == list[i]
             is_unquote == /\ item.tag = "List"
                           /\ item.items # <<>>
                           /\ item.items[1] = Symbol("unquote")
             head ==
                 IF is_unquote /\ Len(item.items) # 2
                 THEN RErr("unquote: needs one argument")
                 ELSE IF /\ is_unquote
                         /\ item.items[2].tag = "Symbol"
                         /\ item.items[2].name \in DOMAIN substitutions
                 THEN ROk(substitutions[item.items[2].name])
                 ELSE expand_quasiquote(item, substitutions)
         IN IF ~head.ok THEN head
            ELSE LET rest == expand_quasiquote_each(list, i + 1, substitutions)
                 IN IF ~rest.ok THEN rest ELSE ROk(<<head.val>> \o rest.val)

expand_quasiquote(expr, substitutions) ==
    CASE expr.tag = "List" ->
            LET expanded_list == expand_quasiquote_each(expr.items, 1, substitutions)
            IN IF ~expanded_list.ok THEN expanded_list
               ELSE ROk(List(expanded_list.val))
      [] expr.tag = "Symbol" ->
            IF expr.name \in DOMAIN substitutions
            THEN ROk(substitutions[expr.name])
            ELSE ROk(expr)
      [] OTHER -> ROk(expr)

\* the for loops of substitute over the items of a list, from item i
substitute_each(list, i, substitutions) ==
    IF i > Len(list) THEN ROk(<<>>)
    ELSE LET head == substitute(list[i], substitutions)
         IN IF ~head.ok THEN head
            ELSE LET rest == substitute_each(list, i + 1, substitutions)
                 IN IF ~rest.ok THEN rest ELSE ROk(<<head.val>> \o rest.val)

substitute(template, substitutions) ==
    CASE template.tag = "Symbol" ->
            IF template.name \in DOMAIN substitutions
            THEN ROk(substitutions[template.name])
            ELSE ROk(template)
      [] template.tag = "List" ->
            IF template.items # <<>> /\ template.items[1] = Symbol("quasiquote")
            THEN IF Len(template.items) # 2
                 THEN RErr("quasiquote: needs one argument")
                 ELSE expand_quasiquote(template.items[2], substitutions)
            ELSE LET new_list == substitute_each(template.items, 1, substitutions)
                 IN IF ~new_list.ok THEN new_list ELSE ROk(List(new_list.val))
      [] OTHER -> ROk(template)

\* MacroExpander::expand; fuel is the stack left for nested expansions
expand(mac, args, e, fuel) ==
    IF mac.tag = "Macro"
    THEN IF Len(mac.params) # Len(args)
         THEN RErr("argument count mismatch")
         ELSE LET substitutions ==
                      insert_substitutions(mac.params, args, 1, EmptyMap)
                  result_ == substitute(mac.body, substitutions)
              IN IF ~result_.ok THEN result_
                 ELSE IF fuel = 0 THEN RAbort
                 ELSE expand_macro(result_.val, e, fuel - 1)
    ELSE RErr("not a valid macro")

\* the map(...).collect() of expand_macro: stops at the first error
expand_each(list, i, e, fuel) ==
    IF i > Len(list) THEN ROk(<<>>)
    ELSE LET head == expand_macro(list[i], e, fuel)
         IN IF ~head.ok THEN head
            ELSE LET rest == expand_each(list, i + 1, e, fuel)
                 IN IF ~rest.ok THEN rest ELSE ROk(<<head.val>> \o rest.val)

expand_macro(ast, e, fuel) ==
    IF ast.tag = "List"
    THEN LET list == ast.items
             mac == IF list # <<>> /\ list[1].tag = "Symbol"
                    THEN get_macro(e, list[1].name)
                    ELSE None
         IN IF mac.some THEN expand(mac.v, Tail(list), e, fuel)
            ELSE LET expanded_list == expand_each(list, 1, e, fuel)
                 IN IF ~expanded_list.ok THEN expanded_list
                    ELSE ROk(List(expanded_list.val))
    ELSE ROk(ast)

----------------------------------------------------------------------------
(* Text.  A Rust String is a TLA+ string; the text the reader and the      *)
(* printer work on is the sequence of its characters.  Each element is one *)
(* of the characters the parser tells apart (whitespace, parentheses, the   *)
(* quote characters, the double quote, the backslash, the semicolon, minus, *)
(* period, the ten digits) or a word: a run of characters none of which is  *)
(* one of these, which every branch of the parser treats alike.            *)

\* the character U+0060, which this module cannot spell
Backquote == "<backquote>"

Whitespace == {" ", "\t", "\n", "\r"}
DigitChar == <<"0", "1", "2", "3", "4", "5", "6", "7", "8", "9">>
Digits == {DigitChar[d] : d \in 1..10}

\* char::is_whitespace, char::is_digit(10)
is_whitespace(ch) == ch \in Whitespace
is_digit(ch) == ch \in Digits
DigitValue(ch) == CHOOSE d \in 0..9 : DigitChar[d + 1] = ch

\* the characters of the Strings that hold more than one word
Spelling ==
    [s \in {"f2", "a\"b", "a\\b"} |->
        CASE s = "f2" -> <<"f", "2">>
          [] s = "a\"b" -> <<"a", "\"", "b">>
          [] s = "a\\b" -> <<"a", "\\", "b">>]

\* String::chars
CharsOf(s) ==
    IF s = "" THEN <<>>
    ELSE IF s \in DOMAIN Spelling THEN Spelling[s]
    ELSE <<s>>

----------------------------------------------------------------------------
(* expression.rs: impl Display for Expr *)

\* i64 Display: the decimal digits, a minus sign first when negative
RECURSIVE NaturalChars(_)
NaturalChars(n) ==
    IF n < 10 THEN <<DigitChar[n + 1]>>
    ELSE Append(NaturalChars(n \div 10), DigitChar[(n % 10) + 1])

IntegerChars(n) == IF n < 0 THEN <<"-">> \o NaturalChars(-n) ELSE NaturalChars(n)

\* the digits after the period of rem / den, rem < den; f64 Display prints
\* the shortest digits that read back to the same f64, which for the short
\* decimal fractions used here are the digits of the decimal expansion
RECURSIVE FractionChars(_, _, _)
FractionChars(rem, den, fuel) ==
    IF rem = 0 \/ fuel = 0 THEN <<>>
    ELSE <<DigitChar[((rem * 10) \div den) + 1]>>
         \o FractionChars((rem * 10) % den, den, fuel - 1)

\* f64 Display: no period when the value is whole
FloatChars(num, den) ==
    LET a == Abs(num)
    IN (IF num < 0 THEN <<"-">> ELSE <<>>)
       \o NaturalChars(a \div den)
       \o (IF a % den = 0 THEN <<>> ELSE <<".">> \o FractionChars(a % den, den, 6))

\* s.replace("\"", "\\\"")
RECURSIVE replace_quotes(_)
replace_quotes(cs) ==
    IF cs = <<>> THEN <<>>
    ELSE (IF Head(cs) = "\"" THEN <<"\\", "\"">> ELSE <<Head(cs)>>)
         \o replace_quotes(Tail(cs))

RECURSIVE fmt(_)
RECURSIVE join_fmt(_, _)

\* list_str.join(" ")
join_fmt(list, i) ==
    IF i > Len(list) THEN <<>>
    ELSE (IF i > 1 THEN <<" ">> ELSE <<>>) \o fmt(list[i]) \o join_fmt(list, i + 1)

fmt(expr) ==
    CASE expr.tag = "Symbol" -> CharsOf(expr.name)
      [] expr.tag = "Number" -> IntegerChars(expr.n)
      [] expr.tag = "Float" -> FloatChars(expr.num, expr.den)
      [] expr.tag = "Str" -> <<"\"">> \o replace_quotes(CharsOf(expr.s)) \o <<"\"">>
      [] expr.tag = "List" -> <<"(">> \o join_fmt(expr.items, 1) \o <<")">>
      [] expr.tag = "DottedPair" ->
            <<"(">> \o fmt(expr.car) \o <<" ", ".", " ">> \o fmt(expr.cdr) \o <<")">>

----------------------------------------------------------------------------
(* parser.rs.  chars is the Peekable<Chars> the parser walks: the text s   *)
(* and the position i of the next character, with the ghost open: the      *)
(* number of calls of parse_list that have not returned.  Every parse      *)
(* function returns its Result together with the iterator and the          *)
(* environment as it leaves them.                                          *)

Chars(s) == [s |-> s, i |-> 1, open |-> 0]
peek(chars) == IF chars.i <= Len(chars.s) THEN Some(chars.s[chars.i]) ELSE None
next(chars) == IF chars.i <= Len(chars.s) THEN [chars EXCEPT !.i = @ + 1] ELSE chars

POk(v, chars, e) == [ok |-> TRUE, val |-> v, chars |-> chars, env |-> e]
PErr(message, chars, e) ==
    [ok |-> FALSE, val |-> LispError(message), chars |-> chars, env |-> e]

RECURSIVE skip_comment(_)
RECURSIVE skip_whitespace_and_comments(_)

\* the inner loop: up to and including the end of the line
skip_comment(chars) ==
    IF peek(chars) = None THEN chars
    ELSE IF peek(chars).v = "\n" THEN next(chars)
    ELSE skip_comment(next(chars))

skip_whitespace_and_comments(chars) ==
    IF peek(chars) = None THEN chars
    ELSE IF is_whitespace(peek(chars).v) THEN skip_whitespace_and_comments(next(chars))
    ELSE IF peek(chars).v = ";" THEN skip_whitespace_and_comments(skip_comment(chars))
    ELSE chars

\* the loop of parse_symbol and parse_symbol_with_leading_minus: characters
\* are taken up to whitespace or a parenthesis
RECURSIVE symbol_chars(_, _)
symbol_chars(chars, symbol) ==
    IF peek(chars) = None THEN [symbol |-> symbol, chars |-> chars]
    ELSE IF is_whitespace(peek(chars).v) \/ peek(chars).v \in {"(", ")"}
    THEN [symbol |-> symbol, chars |-> chars]
    ELSE symbol_chars(next(chars), symbol \o peek(chars).v)

parse_symbol(chars, e) ==
    LET r == symbol_chars(chars, "") IN POk(Symbol(r.symbol), r.chars, e)

parse_symbol_with_leading_minus(chars, e) ==
    LET r == symbol_chars(chars, "-") IN POk(Symbol(r.symbol), r.chars, e)

\* the loop of parse_number and parse_number_with_leading_sign: digits and
\* at most one period; number is the sequence of characters taken
RECURSIVE number_chars(_, _, _)
number_chars(chars, number, is_float) ==
    IF peek(chars) = None
    THEN [ok |-> TRUE, number |-> number, is_float |-> is_float, chars |-> chars]
    ELSE IF is_digit(peek(chars).v)
    THEN number_chars(next(chars), Append(number, peek(chars).v), is_float)
    ELSE IF peek(chars).v = "."
    THEN IF is_float
         THEN [ok |-> FALSE, number |-> number, is_float |-> is_float, chars |-> chars]
         ELSE number_chars(next(chars), Append(number, "."), TRUE)
    ELSE [ok |-> TRUE, number |-> number, is_float |-> is_float, chars |-> chars]

\* the value of a run of digits
RECURSIVE DigitsValue(_)
DigitsValue(ds) ==
    IF ds = <<>> THEN 0
    ELSE 10 * DigitsValue(SubSeq(ds, 1, Len(ds) - 1)) + DigitValue(ds[Len(ds)])

RECURSIVE Pow10(_)
Pow10(k) == IF k = 0 THEN 1 ELSE 10 * Pow10(k - 1)

Unsigned(number) == IF number # <<>> /\ Head(number) = "-" THEN Tail(number) ELSE number
Sign(number) == IF number # <<>> /\ Head(number) = "-" THEN -1 ELSE 1

\* str::parse::<i64> on an optional minus sign and digits: at least one
\* digit.  The texts of the model are too short to leave the range of i64.
parse_i64(number) ==
    IF Unsigned(number) = <<>> THEN None
    ELSE Some(Sign(number) * DigitsValue(Unsigned(number)))

\* str::parse::<f64> on an optional minus sign, digits and one period: at
\* least one digit on either side of the period
parse_f64(number) ==
    LET u == Unsigned(number)
        p == CHOOSE k \in 1..Len(u) : u[k] = "."
        whole == SubSeq(u, 1, p - 1)
        fraction == SubSeq(u, p + 1, Len(u))
    IN IF Len(u) = 1 THEN None
       ELSE Some(F64(Sign(number) * (DigitsValue(whole) * Pow10(Len(fraction))
                                     + DigitsValue(fraction)),
                     Pow10(Len(fraction))))

\* what both number parsers do with the characters taken
number_value(number, chars, e) ==
    IF "." \in {number[k] : k \in 1..Len(number)}
    THEN IF parse_f64(number) = None THEN PErr("Invalid float", chars, e)
         ELSE POk(Float(parse_f64(number).v.num, parse_f64(number).v.den), chars, e)
    ELSE IF parse_i64(number) = None THEN PErr("Invalid number", chars, e)
         ELSE POk(Number(parse_i64(number).v), chars, e)

\* called with the minus sign consumed; the character after the number is
\* not looked at
parse_number_with_leading_sign(chars, negative, e) ==
    LET r == number_chars(chars, IF negative THEN <<"-">> ELSE <<>>, FALSE)
    IN IF ~r.ok THEN PErr("Invalid float", r.chars, e)
       ELSE IF Len(r.number) = 1 /\ negative THEN POk(Symbol("-"), r.chars, e)
       ELSE number_value(r.number, r.chars, e)

parse_number(chars, e) ==
    LET r == number_chars(chars, <<>>, FALSE)
    IN IF ~r.ok THEN PErr("Invalid float", r.chars, e)
       ELSE IF r.number = <<>> \/ r.number = <<".">> THEN PErr("Invalid number", r.chars, e)
       ELSE IF peek(r.chars) # None
               /\ ~is_whitespace(peek(r.chars).v)
               /\ peek(r.chars).v \notin {"(", ")", ";"}
       THEN PErr("Invalid number", r.chars, e)
       ELSE number_value(r.number, r.chars, e)

\* the loop of parse_string: every character up to the next double quote
RECURSIVE string_chars(_, _)
string_chars(chars, string) ==
    IF peek(chars) = None THEN [ok |-> FALSE, string |-> string, chars |-> chars]
    ELSE IF peek(chars).v = "\""
    THEN [ok |-> TRUE, string |-> string, chars |-> next(chars)]
    ELSE string_chars(next(chars), string \o peek(chars).v)

parse_string(chars, e) ==
    LET r == string_chars(next(chars), "")
    IN IF ~r.ok THEN PErr("Unterminated string literal", r.chars, e)
       ELSE POk(Str(r.string), r.chars, e)

RECURSIVE parse_expr(_, _)
RECURSIVE parse_items(_, _, _)

\* a loop that takes the end of the input for the closing parenthesis
parse_items_closed_by_end(chars, list, e) ==
    LET c == skip_whitespace_and_comments(chars)
    IN IF peek(c) = None THEN POk(list, [c EXCEPT !.open = @ - 1], e)
       ELSE IF peek(c).v = ")" THEN POk(list, [next(c) EXCEPT !.open = @ - 1], e)
       ELSE LET expr == parse_expr(c, e)
            IN IF ~expr.ok THEN expr
               ELSE parse_items(expr.chars, Append(list, expr.val), expr.env)

\* the loop of parse_list: the elements are parsed left to right up to the
\* closing parenthesis, the first error ends the read
parse_items(chars, list, e) ==
    LET c == skip_whitespace_and_comments(chars)
    IN IF peek(c) = None THEN PErr("Parse Error: Unexpected end of list", c, e)
       ELSE IF peek(c).v = ")" THEN POk(list, [next(c) EXCEPT !.open = @ - 1], e)
       ELSE LET expr == parse_expr(c, e)
            IN IF ~expr.ok THEN expr
               ELSE parse_items(expr.chars, Append(list, expr.val), expr.env)

\* a parse_list that hands only a list of the top level to parse_defmacro
parse_list_defmacro_at_top_level(chars, e) ==
    LET list == parse_items([next(chars) EXCEPT !.open = @ + 1], <<>>, e)
    IN IF ~list.ok THEN list
       ELSE IF list.val # <<>> /\ list.val[1] = Symbol("defmacro") /\ list.chars.open = 0
       THEN LET d == parse_defmacro(list.val, list.env)
            IN [ok |-> d.ok, val |-> d.val, chars |-> list.chars, env |-> d.env]
       ELSE POk(List(list.val), list.chars, list.env)

\* parse_list: the elements, then the defmacro check on the complete list
parse_list(chars, e) ==
    LET list == parse_items([next(chars) EXCEPT !.open = @ + 1], <<>>, e)
    IN IF ~list.ok THEN list
       ELSE IF list.val # <<>> /\ list.val[1] = Symbol("defmacro")
       THEN LET d == parse_defmacro(list.val, list.env)
            IN [ok |-> d.ok, val |-> d.val, chars |-> list.chars, env |-> d.env]
       ELSE POk(List(list.val), list.chars, list.env)

\* a quote character and the expression after it
quoted(name, chars, e) ==
    LET expr == parse_expr(next(chars), e)
    IN IF ~expr.ok THEN expr
       ELSE POk(List(<<Symbol(name), expr.val>>), expr.chars, expr.env)

parse_expr(chars0, e) ==
    LET chars == skip_whitespace_and_comments(chars0)
    IN IF peek(chars) = None THEN PErr("Unexpected end of input", chars, e)
       ELSE LET c == peek(chars).v
            IN CASE c = "(" -> parse_list(chars, e)
                 [] c = "'" -> quoted("quote", chars, e)
                 [] c = Backquote -> quoted("quasiquote", chars, e)
                 [] c = "," -> quoted("unquote", chars, e)
                 [] c = "\"" -> parse_string(chars, e)
                 [] c = "-" ->
                      LET after == next(chars)
                      IN IF peek(after) = None THEN PErr("Invalid number", after, e)
                         ELSE IF is_digit(peek(after).v) \/ peek(after).v = "."
                         THEN parse_number_with_leading_sign(after, TRUE, e)
                         ELSE IF is_whitespace(peek(after).v)
                                 \/ peek(after).v \in {"(", ")"}
                         THEN POk(Symbol("-"), after, e)
                         ELSE parse_symbol_with_leading_minus(after, e)
                 [] is_digit(c) -> parse_number(chars, e)
                 [] OTHER -> parse_symbol(chars, e)

\* Parser::read: one expression, nothing after it, then macro expansion
read(input, e) ==
    LET chars == skip_whitespace_and_comments(Chars(input))
    IN IF peek(chars) = None THEN [ok |-> TRUE, val |-> NilList, env |-> e]
       ELSE LET expr == parse_expr(chars, e)
            IN IF ~expr.ok THEN [ok |-> FALSE, val |-> expr.val, env |-> expr.env]
               ELSE IF peek(skip_whitespace_and_comments(expr.chars)) # None
               THEN [ok |-> FALSE, val |-> LispError("Unexpected input after list"),
                     env |-> expr.env]
               ELSE LET expanded_expr == expand_macro(expr.val, expr.env, MaxExpand)
                    IN [ok |-> expanded_expr.ok, val |-> expanded_expr.val,
                        env |-> expr.env]

----------------------------------------------------------------------------
(* Input trees.  Each is written next to the text it is the tree of; the   *)
(* text handed to the reader is the one Display prints for the tree.       *)

Call(head, args) == List(<<Symbol(head)>> \o args)
Quote(x) == Call("quote", <<x>>)
Setf(s, e) == Call("setf", <<Symbol(s), e>>)
Defun(f, params, body) == Call("defun", <<Symbol(f), List(params), body>>)
Lambda(params, body) == Call("lambda", <<List(params), body>>)
Progn(es) == Call("progn", es)
Defmacro(m, params, body) == Call("defmacro", <<Symbol(m), List(params), body>>)

SetfForms ==
    { Setf("a", Number(10)),                                \* (setf a 10)
      Setf("a", Quote(List(<<Number(1), Number(2)>>))),     \* (setf a '(1 2))
      Setf("b", Symbol("a")),                               \* (setf b a)
      Setf("f", Number(7)),                                 \* (setf f 7)
      Call("setf", <<Number(1), Number(2)>>),               \* (setf 1 2)
      Call("setf", <<Symbol("a")>>),                        \* (setf a)
      Call("setf", <<Symbol("a"), Number(1), Number(2)>>),  \* (setf a 1 2)
      Setf("a", Symbol("zz")),                              \* (setf a zz)
      \* (setf a (progn (setf a 5) zz))
      Setf("a", Progn(<<Setf("a", Number(5)), Symbol("zz")>>)),
      Setf("b", Setf("a", Number(2))),                      \* (setf b (setf a 2))
      Setf("a", Call("gensym", <<>>)),                      \* (setf a (gensym))
      \* (setf b (defun f () 1))
      Setf("b", Defun("f", <<>>, Number(1))),
      \* (progn (setf a 3) a)
      Progn(<<Setf("a", Number(3)), Symbol("a")>>) }

DefunForms ==
    { \* (defun f (x) (+ x 1))
      Defun("f", <<Symbol("x")>>, Call("+", <<Symbol("x"), Number(1)>>)),
      \* (defun f (x y) (cons x y))
      Defun("f", <<Symbol("x"), Symbol("y")>>,
            Call("cons", <<Symbol("x"), Symbol("y")>>)),
      \* (defun f () (progn (setf a 99) (defun g () 1) a))
      Defun("f", <<>>, Progn(<<Setf("a", Number(99)),
                               Defun("g", <<>>, Number(1)), Symbol("a")>>)),
      \* (defun g (x) (progn (setf x 5) (f) (setf b x)))
      Defun("g", <<Symbol("x")>>,
            Progn(<<Setf("x", Number(5)), Call("f", <<>>),
                    Setf("b", Symbol("x"))>>)),
      \* (defun f () (progn (setf a 98) zz))
      Defun("f", <<>>, Progn(<<Setf("a", Number(98)), Symbol("zz")>>)),
      \* (defun a (x) x)
      Defun("a", <<Symbol("x")>>, Symbol("x")),
      \* (defun f2 (a b) b)
      Defun("f2", <<Symbol("a"), Symbol("b")>>, Symbol("b")),
      \* (defun mk (x) (lambda (y) x))
      Defun("mk", <<Symbol("x")>>, Lambda(<<Symbol("y")>>, Symbol("x"))),
      \* (defun f (5) 1)
      Defun("f", <<Number(5)>>, Number(1)),
      \* (defun 5 (x) x)
      Call("defun", <<Number(5), List(<<Symbol("x")>>), Symbol("x")>>),
      \* (defun f x x)
      Call("defun", <<Symbol("f"), Symbol("x"), Symbol("x")>>),
      \* (defun f (x))
      Call("defun", <<Symbol("f"), List(<<Symbol("x")>>)>>),
      \* (defun f (x) x x)
      Call("defun", <<Symbol("f"), List(<<Symbol("x")>>), Symbol("x"),
                      Symbol("x")>>) }

CallForms ==
    { Call("f", <<Number(1)>>),                             \* (f 1)
      Call("f", <<Number(1), Number(2)>>),                  \* (f 1 2)
      Call("f", <<>>),                                      \* (f)
      Call("g", <<Number(1)>>),                             \* (g 1)
      Call("h", <<Number(1)>>),                             \* (h 1)
      Call("f", <<Symbol("zz")>>),                          \* (f zz)
      Call("a", <<Number(1)>>),                             \* (a 1)
      Call("f2", <<Number(1), Symbol("a")>>),               \* (f2 1 a)
      Call("f", <<Setf("b", Number(5))>>),                  \* (f (setf b 5))
      \* ((mk 1) 2)
      List(<<Call("mk", <<Number(1)>>), Number(2)>>),
      \* (progn (setf a 10) (defun f2 (a b) b) (f2 1 a))
      Progn(<<Setf("a", Number(10)),
              Defun("f2", <<Symbol("a"), Symbol("b")>>, Symbol("b")),
              Call("f2", <<Number(1), Symbol("a")>>)>>),
      \* (progn (defun f () (progn (setf a 99) (defun g () 1) a))
      \*        (defun g (x) (progn (setf x 5) (f) (setf b x)))
      \*        (g 1))
      Progn(<<Defun("f", <<>>, Progn(<<Setf("a", Number(99)),
                                       Defun("g", <<>>, Number(1)), Symbol("a")>>)),
              Defun("g", <<Symbol("x")>>,
                    Progn(<<Setf("x", Number(5)), Call("f", <<>>),
                            Setf("b", Symbol("x"))>>)),
              Call("g", <<Number(1)>>)>>),
      \* (f2 1 (setf a 5))
      Call("f2", <<Number(1), Setf("a", Number(5))>>),
      \* (progn (setf f 7) (defun f (x) x))
      Progn(<<Setf("f", Number(7)), Defun("f", <<Symbol("x")>>, Symbol("x"))>>),
      \* (progn (setf x 7) (defun mk (x) (lambda (y) x)) ((mk 1) 2))
      Progn(<<Setf("x", Number(7)),
              Defun("mk", <<Symbol("x")>>, Lambda(<<Symbol("y")>>, Symbol("x"))),
              List(<<Call("mk", <<Number(1)>>), Number(2)>>)>>) }

LambdaForms ==
    { \* ((lambda (x) (progn (setf y (+ x 2)) (+ y 0))) 9)
      List(<<Lambda(<<Symbol("x")>>,
                    Progn(<<Setf("y", Call("+", <<Symbol("x"), Number(2)>>)),
                            Call("+", <<Symbol("y"), Number(0)>>)>>)),
             Number(9)>>),
      \* ((lambda (x) (defun f () x)) 1)
      List(<<Lambda(<<Symbol("x")>>, Defun("f", <<>>, Symbol("x"))), Number(1)>>),
      \* ((lambda (x) x) (setf a 3))
      List(<<Lambda(<<Symbol("x")>>, Symbol("x")), Setf("a", Number(3))>>),
      \* ((lambda (x) (progn (setf a 97) zz)) 1)
      List(<<Lambda(<<Symbol("x")>>,
                    Progn(<<Setf("a", Number(97)), Symbol("zz")>>)), Number(1)>>),
      \* ((lambda (x) x))
      List(<<Lambda(<<Symbol("x")>>, Symbol("x"))>>),
      \* ((progn (setf a 4) (lambda (x) a)) 1)
      List(<<Progn(<<Setf("a", Number(4)), Lambda(<<Symbol("x")>>, Symbol("a"))>>),
             Number(1)>>),
      \* ((quote (1 2)) 3)
      List(<<Quote(List(<<Number(1), Number(2)>>)), Number(3)>>),
      \* (lambda (x) x)
      Lambda(<<Symbol("x")>>, Symbol("x")),
      \* (lambda (x) (setf a x) a)
      Call("lambda", <<List(<<Symbol("x")>>), Setf("a", Symbol("x")), Symbol("a")>>),
      \* (lambda x x)
      Call("lambda", <<Symbol("x"), Symbol("x")>>),
      \* (lambda (x))
      Call("lambda", <<List(<<Symbol("x")>>)>>) }

AtomForms ==
    { Symbol("a"), Symbol("f"), Symbol("zz"), Number(5), NilList }

MacroForms ==
    { \* (defmacro m (x) `(+ ,x 10))
      Defmacro("m", <<Symbol("x")>>,
               Call("quasiquote",
                    <<Call("+", <<Call("unquote", <<Symbol("x")>>), Number(10)>>)>>)),
      \* (defmacro f (x) '(quote mf))
      Defmacro("f", <<Symbol("x")>>, Quote(Quote(Symbol("mf")))),
      \* (defmacro a () 1)
      Defmacro("a", <<>>, Number(1)),
      Call("m", <<Number(5)>>),                             \* (m 5)
      Call("m", <<>>) }                                     \* (m)

Forms == SetfForms \cup DefunForms \cup CallForms \cup LambdaForms
         \cup AtomForms \cup MacroForms

\* arguments of the direct calls of the Environment setters
ApiNames == {"a", "f"}
ApiValues == {Number(1), Symbol("f")}
ApiFunctions ==
    { List(<<Symbol("lambda"), List(<<Symbol("x")>>), Symbol("x")>>),
      Number(3) }
ApiMacros == { Macro(<<Symbol("x")>>, Symbol("x")) }

----------------------------------------------------------------------------
(* Ghost: the last value written per table, kept apart from the tables     *)
(* themselves.  A successful setf or defun evaluated in the top frame      *)
(* wrote the value it returned resp. the lambda list of its arguments.     *)

RECURSIVE WrittenByLog(_, _, _)
WrittenByLog(entries, i, wr) ==
    IF i > Len(entries) THEN wr
    ELSE LET e == entries[i]
             top == e.fn = "eval" /\ e.depth = 0 /\ e.ok /\ e.ast.tag = "List"
                    /\ e.ast.items # <<>>
         IN WrittenByLog(entries, i + 1,
                IF top /\ e.ast.items[1] = Symbol("setf")
                THEN [wr EXCEPT !.symbols = Put(@, e.ast.items[2].name, e.val)]
                ELSE IF top /\ e.ast.items[1] = Symbol("defun")
                THEN [wr EXCEPT !.functions =
                         Put(@, e.ast.items[2].name,
                             List(<<Symbol("lambda"), e.ast.items[3],
                                    e.ast.items[4]>>))]
                ELSE wr)

\* a well-formed (defmacro name (params) body) read at top level
IsDefmacro(raw) ==
    /\ raw.tag = "List"
    /\ Len(raw.items) >= 4
    /\ raw.items[1] = Symbol("defmacro")
    /\ raw.items[2].tag = "Symbol"
    /\ raw.items[3].tag = "List"

WrittenByRead(raw, wr) ==
    IF IsDefmacro(raw)
    THEN [wr EXCEPT !.macros = Put(@, raw.items[2].name,
                                   Macro(raw.items[3].items, raw.items[4]))]
    ELSE wr

----------------------------------------------------------------------------
(* The state machine: the REPL's top-level Environment and the operations  *)
(* on it.                                                                  *)

Init ==
    /\ env = initialize
    /\ GENSYM_COUNTER = 0
    /\ OPERATOR_REGISTRY = RegistryInit
    /\ op = "initialize"
    /\ form = NilList
    /\ text = <<>>
    /\ result = [ok |-> TRUE, val |-> NilList]
    /\ prev = initialize
    /\ log = <<>>
    /\ written = initialize
    /\ steps = 0
    /\ running = "none"
    /\ line = <<>>
    /\ input_accumulated = <<>>
    /\ open_parens = 0
    /\ locked = {}
    /\ stack = <<>>

\* what the loop does with the Result rd of Parser::read and, when that is Ok,
\* with the Result ev of Evaluator::eval
Outcome(raw, rd, ev) ==
    /\ rd.val.tag # "StackOverflow"
    /\ IF rd.ok
       THEN /\ ev.val.tag # "StackOverflow"
            /\ ev.w.g <= MaxGensym
            /\ env' = ev.w.env
            /\ GENSYM_COUNTER' = ev.w.g
            /\ op' = "eval"
            /\ result' = [ok |-> ev.ok, val |-> ev.val]
            /\ log' = ev.w.log
            /\ written' = WrittenByLog(ev.w.log, 1, WrittenByRead(raw, written))
       ELSE /\ env' = rd.env
            /\ GENSYM_COUNTER' = GENSYM_COUNTER
            /\ op' = "parse_error"
            /\ result' = [ok |-> FALSE, val |-> rd.val]
            /\ log' = <<>>
            /\ written' = written

\* Evaluator::eval of the tree read, in the environment the reader left
EvalRead(raw, rd) == Outcome(raw, rd, eval(rd.val, World(rd.env, GENSYM_COUNTER)))

\* main.rs, the body of the repl / interpreter loop for one complete input:
\* Parser::read, then Evaluator::eval of the tree read
ReadEval(raw) ==
    /\ steps < MaxSteps
    /\ EvalRead(raw, read(fmt(raw), env))
    /\ form' = raw
    /\ text' = fmt(raw)
    /\ prev' = env
    /\ steps' = steps + 1
    /\ UNCHANGED <<OPERATOR_REGISTRY, main, locks>>

\* a direct env.set_symbol(symbol, value), as the tests make
SetSymbol(symbol, value) ==
    /\ steps < MaxSteps
    /\ env' = set_symbol(env, symbol, value)
    /\ written' = [written EXCEPT !.symbols = Put(@, symbol, value)]
    /\ op' = "set_symbol"
    /\ form' = Symbol(symbol)
    /\ result' = [ok |-> TRUE, val |-> value]
    /\ prev' = env
    /\ log' = <<>>
    /\ steps' = steps + 1
    /\ UNCHANGED <<GENSYM_COUNTER, OPERATOR_REGISTRY, text, main, locks>>

\* a direct env.set_function(name, func)
SetFunction(name, func) ==
    /\ steps < MaxSteps
    /\ env' = set_function(env, name, func)
    /\ written' = [written EXCEPT !.functions = Put(@, name, func)]
    /\ op' = "set_function"
    /\ form' = Symbol(name)
    /\ result' = [ok |-> TRUE, val |-> func]
    /\ prev' = env
    /\ log' = <<>>
    /\ steps' = steps + 1
    /\ UNCHANGED <<GENSYM_COUNTER, OPERATOR_REGISTRY, text, main, locks>>

\* a direct env.set_macro(name, macro_def)
SetMacro(name, macro_def) ==
    /\ steps < MaxSteps
    /\ env' = set_macro(env, name, macro_def)
    /\ written' = [written EXCEPT !.macros = Put(@, name, macro_def)]
    /\ op' = "set_macro"
    /\ form' = Symbol(name)
    /\ result' = [ok |-> TRUE, val |-> macro_def]
    /\ prev' = env
    /\ log' = <<>>
    /\ steps' = steps + 1
    /\ UNCHANGED <<GENSYM_COUNTER, OPERATOR_REGISTRY, text, main, locks>>

Next ==
    \/ \E raw \in Forms : ReadEval(raw)
    \/ \E symbol \in ApiNames, value \in ApiValues : SetSymbol(symbol, value)
    \/ \E name \in ApiNames, func \in ApiFunctions : SetFunction(name, func)
    \/ \E name \in ApiNames, macro_def \in ApiMacros : SetMacro(name, macro_def)

Spec == Init /\ [][Next]_vars

----------------------------------------------------------------------------
(* Reading the log *)

HeadIs(ast, name) ==
    ast.tag = "List" /\ ast.items # <<>> /\ ast.items[1] = Symbol(name)

\* a user function call (f a1..an): the head is a Symbol outside the registry
IsFunctionCall(ast) ==
    /\ ast.tag = "List" /\ ast.items # <<>>
    /\ ast.items[1].tag = "Symbol"
    /\ ast.items[1].name \notin DOMAIN OPERATOR_REGISTRY

\* an immediate-lambda application ((lambda ...) a1..an)
IsLambdaApplication(ast) ==
    /\ ast.tag = "List" /\ ast.items # <<>>
    /\ HeadIs(ast.items[1], "lambda")

IsCallEntry(e) == e.fn \in {"eval_function_call", "eval_lambda_call"}

\* a setf or defun that succeeded and changed the environment of its frame
WroteInFrame(e) ==
    /\ e.fn = "eval" /\ e.ok
    /\ HeadIs(e.ast, "setf") \/ HeadIs(e.ast, "defun")
    /\ e.envOut # e.envIn

----------------------------------------------------------------------------
(* Claims *)

\* C1: every user function call and every immediate-lambda application, at
\* any call depth and whether it returns a value or an error, leaves the
\* environment of its caller (value, function and macro table) as it found
\* it, whatever setf and defun the callee's body executed.
C1_CallLeavesCallerEnv ==
    \A i \in 1..Len(log) :
        \/ IsCallEntry(log[i])
        \/ log[i].fn = "eval" /\ IsFunctionCall(log[i].ast)
        \/ log[i].fn = "eval" /\ IsLambdaApplication(log[i].ast)
        => log[i].envOut = log[i].envIn

\* a call from the top frame returned a value after a setf two frames down
\* (the body of a function called by the callee) changed that frame's table
C1_Witness ==
    \E i \in 1..Len(log) : \E j \in 1..Len(log) :
        /\ j < i
        /\ log[i].fn = "eval_function_call" /\ log[i].depth = 0 /\ log[i].ok
        /\ WroteInFrame(log[j]) /\ log[j].depth = 2
        /\ \A k \in j..i : log[k].depth >= 1 \/ k = i


\* What C2 describes: the arguments evaluated left to right in the caller's
\* own environment, each evaluation seeing what the previous one left there.
RECURSIVE caller_args(_, _, _, _)
caller_args(args, i, vals, w) ==
    IF i > Len(args) THEN Ok(vals, w)
    ELSE LET value == eval(args[i], w)
         IN IF ~value.ok THEN value
            ELSE caller_args(args, i + 1, Append(vals, value.val), value.w)

RECURSIVE bind_values(_, _, _, _)
bind_values(params, vals, i, e) ==
    IF i > Len(params) THEN e
    ELSE bind_values(params, vals, i + 1, set_symbol(e, params[i].name, vals[i]))

\* the outcome C2 describes for a call of (lambda (params) body) on args
\* from world w: result of the body, and the caller's environment afterwards
described_call(params, body, args, w) ==
    LET a == caller_args(args, 1, <<>>, w)
    IN IF ~a.ok THEN [ok |-> FALSE, val |-> a.val, env |-> a.w.env]
       ELSE LET local == [a.w EXCEPT !.env = bind_values(params, a.val, 1, @),
                                     !.depth = @ + 1]
                r == eval(body, local)
            IN [ok |-> r.ok, val |-> r.val, env |-> a.w.env]

EntryWorld(e) ==
    [env |-> e.envIn, g |-> e.gIn, log |-> <<>>, depth |-> e.depth, level |-> e.level]

\* the (lambda (params) body) a call entry applies, when it is well formed
\* for the arguments of the call
CalleeOf(e) ==
    IF e.fn = "eval_function_call"
    THEN get_function(e.envIn, e.ast.items[1].name)
    ELSE Some(e.ast.items[1])

\* the callee is a list (lambda (p1..pn) body) with Symbols for parameters
WellFormedCallee(e) ==
    /\ IsCallEntry(e)
    /\ CalleeOf(e).some
    /\ LET fun == CalleeOf(e).v
       IN /\ fun.tag = "List" /\ Len(fun.items) = 3
          /\ fun.items[1] = Symbol("lambda")
          /\ fun.items[2].tag = "List"
          /\ \A k \in 1..Len(fun.items[2].items) : fun.items[2].items[k].tag = "Symbol"

\* and the call passes as many arguments as it has parameters
WellFormedCall(e) ==
    /\ WellFormedCallee(e)
    /\ Len(CalleeOf(e).v.items[2].items) = Len(e.ast.items) - 1

DescribedOutcome(e) ==
    LET fun == CalleeOf(e).v
    IN described_call(fun.items[2].items, fun.items[3], Tail(e.ast.items), EntryWorld(e))

\* C2 (as stated): every argument of a user function call or lambda
\* application is evaluated in the caller's environment, so the call returns
\* what its body yields with each parameter bound to the caller-side value of
\* its argument, and the bindings a setf made while an argument was evaluated
\* are in the caller's environment after the call.
C2_ArgsEvaluatedInCallerEnv ==
    \A i \in 1..Len(log) :
        WellFormedCall(log[i]) /\ DescribedOutcome(log[i]).val # StackOverflow
        => /\ log[i].ok = DescribedOutcome(log[i]).ok
           /\ log[i].val = DescribedOutcome(log[i]).val
           /\ log[i].envOut = DescribedOutcome(log[i]).env


\* the list a well-formed lambda form (lambda (params) b1..bn) stands for
InertLambda(ast) ==
    LET args == Tail(ast.items)
    IN List(<<Symbol("lambda"), List(args[1].items),
              IF Len(args) = 2 THEN args[2]
              ELSE List(<<Symbol("progn")>> \o Tail(args))>>)

AllNumbers(xs) == \A k \in 1..Len(xs) : xs[k].tag = "Number"

\* ast is ((f a1..an) b1..bm) with literal arguments, f being defined in e as
\* (lambda (p1..pn) (lambda (q1..qm) s)), s one of the p and none of the q
AppliesReturnedLambda(ast, e) ==
    /\ ast.tag = "List" /\ ast.items # <<>>
    /\ IsFunctionCall(ast.items[1])
    /\ AllNumbers(Tail(ast.items)) /\ AllNumbers(Tail(ast.items[1].items))
    /\ get_function(e, ast.items[1].items[1].name).some
    /\ LET fun == get_function(e, ast.items[1].items[1].name).v
       IN /\ fun.tag = "List" /\ Len(fun.items) = 3
          /\ fun.items[2].tag = "List"
          /\ Len(fun.items[2].items) = Len(ast.items[1].items) - 1
          /\ HeadIs(fun.items[3], "lambda") /\ Len(fun.items[3].items) = 3
          /\ fun.items[3].items[2].tag = "List"
          /\ Len(fun.items[3].items[2].items) = Len(ast.items) - 1
          /\ fun.items[3].items[3].tag = "Symbol"
          /\ \E k \in 1..Len(fun.items[2].items) :
                 fun.items[2].items[k] = fun.items[3].items[3]
          /\ \A k \in 1..Len(fun.items[3].items[2].items) :
                 /\ fun.items[3].items[2].items[k].tag = "Symbol"
                 /\ fun.items[3].items[2].items[k] # fun.items[3].items[3]

FreeSymbolOf(ast, e) ==
    get_function(e, ast.items[1].items[1].name).v.items[3].items[3].name

\* C3: evaluating a lambda form returns the inert list (lambda (params) body)
\* (several body expressions wrapped in one progn), an ill-formed one an
\* error, and leaves the environment as it was whatever it holds; nothing is
\* captured: when a function returns (lambda (q..) s), s being a parameter of
\* that function, applying the returned list yields what s is bound to in the
\* environment of the application, or the undefined-symbol error when s is
\* unbound there, never the argument the creating call was given.
C3_LambdaInertNoCapture ==
    \A i \in 1..Len(log) :
        /\ log[i].fn = "eval" /\ HeadIs(log[i].ast, "lambda")
           => /\ log[i].envOut = log[i].envIn
              /\ IF Len(log[i].ast.items) >= 3 /\ log[i].ast.items[2].tag = "List"
                 THEN log[i].ok /\ log[i].val = InertLambda(log[i].ast)
                 ELSE ~log[i].ok
        /\ log[i].fn = "eval" /\ AppliesReturnedLambda(log[i].ast, log[i].envIn)
           => LET s == FreeSymbolOf(log[i].ast, log[i].envIn)
              IN IF s \in DOMAIN log[i].envIn.symbols
                 THEN log[i].ok /\ log[i].val = log[i].envIn.symbols[s]
                 ELSE ~log[i].ok /\ log[i].val = LispError("Undefined symbol: " \o s)

\* ((mk 1) 2) was evaluated where x is 7: the lambda mk returned, created
\* while mk's parameter x was 1, yields 7
C3_Witness ==
    \E i \in 1..Len(log) :
        /\ log[i].fn = "eval" /\ AppliesReturnedLambda(log[i].ast, log[i].envIn)
        /\ log[i].ok
        /\ log[i].val # log[i].ast.items[1].items[2]
        /\ \E j \in 1..(i - 1) :
               /\ log[j].fn = "eval" /\ HeadIs(log[j].ast, "lambda")
               /\ log[j].depth = log[i].depth + 1 /\ log[j].ok
               /\ get_symbol(log[j].envIn, FreeSymbolOf(log[i].ast, log[i].envIn))
                      = Some(log[i].ast.items[1].items[2])


\* the names the three tables are probed under
ProbedNames == {"a", "b", "f", "g", "m", "x", "zz"}

SymbolLookupFrom(n, table) ==
    LET r == eval(Symbol(n), World(env, GENSYM_COUNTER))
    IN IF n \in DOMAIN table THEN r.ok /\ r.val = table[n]
       ELSE ~r.ok /\ r.val = LispError("Undefined symbol: " \o n)

FunctionLookupFrom(n, table) ==
    LET r == eval_function_call(n, <<>>, World(env, GENSYM_COUNTER))
        fresh == [env EXCEPT !.symbols = initialize.symbols, !.macros = EmptyMap,
                             !.functions = table]
        alone == eval_function_call(n, <<>>, World(fresh, GENSYM_COUNTER))
    IN /\ (r.val = LispError("Undefined function: " \o n)) <=> n \notin DOMAIN table
       /\ (r.val = LispError("Undefined function: " \o n))
              <=> (alone.val = LispError("Undefined function: " \o n))

MacroLookupFrom(n, table) ==
    LET ast == List(<<Symbol(n), Number(1)>>)
        r == expand_macro(ast, env, MaxExpand)
    IN IF n \in DOMAIN table
       THEN r = expand(table[n], <<Number(1)>>, env, MaxExpand)
       ELSE r = ROk(ast)

\* C4: after any sequence of set_symbol, set_function and set_macro calls
\* and of setf, defun and defmacro forms, each table holds under each name
\* the last value written to that table under that name and nothing under a
\* name never written to it, whatever the other two tables hold under the
\* name: evaluating a symbol is answered from the value table alone, a
\* function call from the function table alone, macro expansion from the
\* macro table alone.
C4_TablesIndependent ==
    /\ env.symbols = written.symbols
    /\ env.functions = written.functions
    /\ env.macros = written.macros
    /\ \A n \in ProbedNames :
           /\ SymbolLookupFrom(n, written.symbols)
           /\ FunctionLookupFrom(n, written.functions)
           /\ MacroLookupFrom(n, written.macros)

\* one name is bound in all three tables, to three different things
C4_Witness ==
    \E n \in ProbedNames :
        /\ n \in DOMAIN env.symbols /\ n \in DOMAIN env.functions
        /\ n \in DOMAIN env.macros
        /\ env.symbols[n] # env.functions[n]
        /\ env.macros[n] # env.functions[n]


IsSetfEntry(e) == e.fn = "eval" /\ HeadIs(e.ast, "setf")

\* (setf s e) with exactly two arguments, the first a Symbol
SetfShapeOk(ast) == Len(ast.items) = 3 /\ ast.items[2].tag = "Symbol"

LookupAfter(e, s) == eval(Symbol(s), World(e.envOut, e.gIn))

\* C5 (as stated): (setf s e) returns the value v of e, s evaluates to v
\* right afterwards, and the function and macro tables are what they were
\* before the setf form; a failing setf (wrong argument count, first argument
\* not a Symbol, e in error) leaves every value binding as it was before the
\* form.
C5_SetfAsStated ==
    \A i \in 1..Len(log) :
        IsSetfEntry(log[i])
        => IF log[i].ok
           THEN /\ SetfShapeOk(log[i].ast)
                /\ log[i].val = log[i - 1].val
                /\ LookupAfter(log[i], log[i].ast.items[2].name).val = log[i].val
                /\ log[i].envOut.functions = log[i].envIn.functions
                /\ log[i].envOut.macros = log[i].envIn.macros
           ELSE /\ SetfShapeOk(log[i].ast) => ~log[i - 1].ok
                /\ log[i].envOut.symbols = log[i].envIn.symbols

\* C5 (amended): (setf s e) returns the value v of e and s evaluates to v
\* right afterwards, any earlier binding of s overwritten; setf itself writes
\* that one binding and nothing else, so the three tables are otherwise as
\* the evaluation of e left them.  A setf with an argument count other than
\* two or a first argument that is no Symbol fails with the environment
\* untouched; when e fails, setf fails with the same error and writes no
\* binding: the environment is as the evaluation of e left it.
C5_SetfWritesOneBinding ==
    \A i \in 1..Len(log) :
        IsSetfEntry(log[i])
        => IF ~SetfShapeOk(log[i].ast)
           THEN ~log[i].ok /\ log[i].envOut = log[i].envIn
           ELSE /\ i > 1
                /\ log[i - 1].fn = "eval" /\ log[i - 1].ast = log[i].ast.items[3]
                /\ log[i - 1].envIn = log[i].envIn
                /\ log[i].ok = log[i - 1].ok
                /\ log[i].val = log[i - 1].val
                /\ IF log[i].ok
                   THEN /\ log[i].envOut =
                               set_symbol(log[i - 1].envOut, log[i].ast.items[2].name,
                                          log[i].val)
                        /\ LookupAfter(log[i], log[i].ast.items[2].name).ok
                        /\ LookupAfter(log[i], log[i].ast.items[2].name).val = log[i].val
                   ELSE log[i].envOut = log[i - 1].envOut

\* a setf succeeded on a symbol that was bound to something else before, and
\* the symbol now evaluates to the value setf returned
C5_Witness ==
    \E i \in 2..Len(log) :
        /\ IsSetfEntry(log[i]) /\ SetfShapeOk(log[i].ast) /\ log[i].ok
        /\ get_symbol(log[i].envIn, log[i].ast.items[2].name).some
        /\ get_symbol(log[i].envIn, log[i].ast.items[2].name) # Some(log[i].val)
        /\ LookupAfter(log[i], log[i].ast.items[2].name).val = log[i].val


\* The evaluations made directly on behalf of log[i]: the eval entries one
\* nesting level below an eval entry (at the level of a call entry) that
\* completed before it with nothing of a lower level in between.
ChildLevel(i) == IF log[i].fn = "eval" THEN log[i].level + 1 ELSE log[i].level

Children(i) ==
    { j \in 1..(i - 1) :
          /\ log[j].fn = "eval" /\ log[j].level = ChildLevel(i)
          /\ \A k \in j..(i - 1) : log[k].level >= ChildLevel(i) }

\* the k-th of them in evaluation order
Child(i, k) ==
    CHOOSE j \in Children(i) : Cardinality({x \in Children(i) : x < j}) = k - 1

NumChildren(i) == Cardinality(Children(i))


IsDefunEntry(e) == e.fn = "eval" /\ HeadIs(e.ast, "defun")

\* (defun f (p1..pn) body): three arguments, a Symbol, a List
DefunShapeOk(ast) ==
    Len(ast.items) = 4 /\ ast.items[2].tag = "Symbol" /\ ast.items[3].tag = "List"

\* what a defun form does, as C6 states it
DefunAsStated(e) ==
    IF DefunShapeOk(e.ast)
    THEN /\ e.ok /\ e.val = e.ast.items[2]
         /\ e.envOut.functions =
                Put(e.envIn.functions, e.ast.items[2].name,
                    List(<<Symbol("lambda"), e.ast.items[3], e.ast.items[4]>>))
         /\ e.envOut.symbols = e.envIn.symbols
         /\ e.envOut.macros = e.envIn.macros
    ELSE ~e.ok /\ e.envOut.functions = e.envIn.functions

\* what a call (f a1..an) does, as C6 states it; log[i] is the entry of
\* eval_function_call, its children the evaluations of a1..an and of body
CallAsStated(i) ==
    LET e == log[i]
        f == e.ast.items[1].name
        n == Len(e.ast.items) - 1
    IN IF ~get_function(e.envIn, f).some
       THEN ~e.ok /\ e.val = LispError("Undefined function: " \o f)
       ELSE WellFormedCallee(e)
            => LET params == get_function(e.envIn, f).v.items[2].items
                   body == get_function(e.envIn, f).v.items[3]
               IN IF Len(params) # n
                  THEN ~e.ok
                  ELSE (\A k \in 1..n : NumChildren(i) >= k /\ log[Child(i, k)].ok)
                       => /\ NumChildren(i) = n + 1
                          /\ log[Child(i, n + 1)].ast = body
                          /\ \A k \in 1..n :
                                 get_symbol(log[Child(i, n + 1)].envIn, params[k].name)
                                     = Some(log[Child(i, k)].val)
                          /\ e.ok = log[Child(i, n + 1)].ok
                          /\ e.val = log[Child(i, n + 1)].val

\* C6 (as stated): a well-formed defun stores exactly (lambda (p1..pn) body)
\* under f in the function table, returns Symbol f, replaces an earlier
\* definition and leaves the other two tables alone; an ill-formed one fails
\* with the function table unchanged; a later call evaluates body with each
\* parameter bound to the value its argument evaluated to and returns what
\* body returns, and a call with another number of arguments or of an
\* undefined name returns an error.
C6_DefunAndCallAsStated ==
    \A i \in 1..Len(log) :
        /\ IsDefunEntry(log[i]) => DefunAsStated(log[i])
        /\ log[i].fn = "eval_function_call" => CallAsStated(i)


----------------------------------------------------------------------------
(* cond: its own inputs and a specification running them from the REPL's   *)
(* initial environment, the symbol a being set to values of every kind.    *)

Clause(test, result_) == List(<<test, result_>>)
Cond(clauses) == List(<<Symbol("cond")>> \o clauses)

CondForms ==
    { Cond(<<List(<<Number(3)>>)>>),                        \* (cond (3))
      Cond(<<List(<<Symbol("nil")>>)>>),                    \* (cond (nil))
      \* (cond (nil 1) ((not nil) 2) (3))
      Cond(<<Clause(Symbol("nil"), Number(1)),
             Clause(Call("not", <<Symbol("nil")>>), Number(2)),
             List(<<Number(3)>>)>>),
      \* (cond (t 1) (t 2) (3))
      Cond(<<Clause(Symbol("t"), Number(1)), Clause(Symbol("t"), Number(2)),
             List(<<Number(3)>>)>>),
      \* (cond (nil 1) (nil 2))
      Cond(<<Clause(Symbol("nil"), Number(1)), Clause(Symbol("nil"), Number(2))>>),
      Cond(<<>>),                                           \* (cond)
      \* (cond (t 1 2))
      Cond(<<List(<<Symbol("t"), Number(1), Number(2)>>)>>),
      \* (cond (1 2 3) (5))
      Cond(<<List(<<Number(1), Number(2), Number(3)>>), List(<<Number(5)>>)>>),
      \* (cond () (5))
      Cond(<<NilList, List(<<Number(5)>>)>>),
      \* (cond 5 (t 1))
      Cond(<<Number(5), Clause(Symbol("t"), Number(1))>>),
      \* (cond (t 1) (1 2 3))
      Cond(<<Clause(Symbol("t"), Number(1)),
             List(<<Number(1), Number(2), Number(3)>>)>>),
      \* (cond (nil 1) (7) 5)
      Cond(<<Clause(Symbol("nil"), Number(1)), List(<<Number(7)>>), Number(5)>>),
      \* (cond (zz 1) (t 2))
      Cond(<<Clause(Symbol("zz"), Number(1)), Clause(Symbol("t"), Number(2))>>),
      \* (cond (zz 1))
      Cond(<<Clause(Symbol("zz"), Number(1))>>),
      \* (cond (zz 1) (1 2 3))
      Cond(<<Clause(Symbol("zz"), Number(1)),
             List(<<Number(1), Number(2), Number(3)>>)>>),
      \* (cond (zz 1) (t yy) (t 3))
      Cond(<<Clause(Symbol("zz"), Number(1)), Clause(Symbol("t"), Symbol("yy")),
             Clause(Symbol("t"), Number(3))>>),
      \* (cond (nil 1) (yy) (t 3))
      Cond(<<Clause(Symbol("nil"), Number(1)), List(<<Symbol("yy")>>),
             Clause(Symbol("t"), Number(3))>>),
      \* (cond ((/ 1 0) 1) ((+ 1 1) (car 5)))
      Cond(<<Clause(Call("/", <<Number(1), Number(0)>>), Number(1)),
             Clause(Call("+", <<Number(1), Number(1)>>), Call("car", <<Number(5)>>))>>),
      \* (cond ((setf b 0) (setf c 1)) ((setf d 1) (setf e 2)) ((setf g 1) 9))
      Cond(<<Clause(Setf("b", Number(0)), Setf("c", Number(1))),
             Clause(Setf("d", Number(1)), Setf("e", Number(2))),
             Clause(Setf("g", Number(1)), Number(9))>>),
      \* (cond ((progn (setf b 1) zz) 1) (b 2))
      Cond(<<Clause(Progn(<<Setf("b", Number(1)), Symbol("zz")>>), Number(1)),
             Clause(Symbol("b"), Number(2))>>),
      \* (cond (1.5 1) (t 2))
      Cond(<<Clause(Float(3, 2), Number(1)), Clause(Symbol("t"), Number(2))>>),
      \* (cond ("s" 1) (t 2))
      Cond(<<Clause(Str("s"), Number(1)), Clause(Symbol("t"), Number(2))>>),
      \* (cond ((cons 1 2) 1) (t 2))
      Cond(<<Clause(Call("cons", <<Number(1), Number(2)>>), Number(1)),
             Clause(Symbol("t"), Number(2))>>),
      \* (cond ((quote foo) 1) ((quote nil) 2) ((quote t) 3))
      Cond(<<Clause(Quote(Symbol("foo")), Number(1)),
             Clause(Quote(Symbol("nil")), Number(2)),
             Clause(Quote(Symbol("t")), Number(3))>>),
      \* (cond (0 1) ((quote (1)) 2))
      Cond(<<Clause(Number(0), Number(1)),
             Clause(Quote(List(<<Number(1)>>)), Number(2))>>),
      \* (cond (() 1) (-1 2))
      Cond(<<Clause(NilList, Number(1)), Clause(Number(-1), Number(2))>>),
      \* (cond (a 1) (t 2))
      Cond(<<Clause(Symbol("a"), Number(1)), Clause(Symbol("t"), Number(2))>>),
      \* (cond ((cond (a 0) (t 1)) 5) ((cond (zz 1)) 6) (7))
      Cond(<<Clause(Cond(<<Clause(Symbol("a"), Number(0)),
                           Clause(Symbol("t"), Number(1))>>), Number(5)),
             Clause(Cond(<<Clause(Symbol("zz"), Number(1))>>), Number(6)),
             List(<<Number(7)>>)>>) }

\* values of every variant the symbol a is set to before a cond tests it
CondValues ==
    { Number(0), Number(2), NilList, List(<<Number(0)>>), Float(3, 2), Float(0, 1),
      Str("s"), Str(""), Symbol("foo"), Symbol("nil"), Symbol("NIL"), Symbol("t"),
      DottedPair(Number(1), Number(2)) }

NextCond ==
    \/ \E raw \in CondForms : ReadEval(raw)
    \/ \E value \in CondValues : SetSymbol("a", value)

SpecCond == Init /\ [][NextCond]_vars


----------------------------------------------------------------------------
(* Claims about cond *)

IsCondEntry(e) == e.fn = "eval" /\ HeadIs(e.ast, "cond")

Clauses(i) == Tail(log[i].ast.items)

\* a List of one or of two elements
ClauseShapeOk(clause) == clause.tag = "List" /\ Len(clause.items) \in {1, 2}

\* truthy as the description of cond lists it: Symbol t/T, a non-zero
\* Integer, a non-empty List; an evaluation in error is not truthy
ListedTruthy(e) ==
    /\ e.ok
    /\ \/ e.val \in {Symbol("t"), Symbol("T")}
       \/ e.val.tag = "Number" /\ e.val.n # 0
       \/ e.val.tag = "List" /\ e.val.items # <<>>

\* truthy as the glossary defines it: everything but the empty List, the
\* Integer 0 and the Symbol nil/NIL
GlossaryTruthy(e) ==
    /\ e.ok
    /\ e.val \notin {NilList, Number(0), Symbol("nil"), Symbol("NIL")}

TestTrue(e, glossary) == IF glossary THEN GlossaryTruthy(e) ELSE ListedTruthy(e)

SameResult(a, b) == a.ok = b.ok /\ a.val = b.val /\ a.envOut = b.envOut

FailsWith(e, message) == ~e.ok /\ e.val = LispError(message)

\* The cond entry log[i] examined its clauses from clause c on, its k-th
\* child being the next evaluation it made: a one-element clause is selected,
\* a two-element clause is when its test is truthy, the selected clause's
\* expression is the last evaluation made and its outcome is cond's; a
\* rejected clause had its test evaluated and nothing else.  A clause that
\* is no List of one or two elements ends cond with an error when
\* malformedStops, and is passed over otherwise.
RECURSIVE CondWalk(_, _, _, _, _)
CondWalk(i, c, k, malformedStops, glossary) ==
    IF c > Len(Clauses(i))
    THEN NumChildren(i) = k - 1 /\ FailsWith(log[i], "No true condition in cond")
    ELSE IF ~ClauseShapeOk(Clauses(i)[c])
    THEN IF ~malformedStops THEN CondWalk(i, c + 1, k, malformedStops, glossary)
         ELSE /\ NumChildren(i) = k - 1
              /\ IF Clauses(i)[c].tag # "List"
                 THEN FailsWith(log[i], "Cond clause must be a list")
                 ELSE FailsWith(log[i],
                          "Each cond clause must have exactly one or two elements")
    ELSE IF Len(Clauses(i)[c].items) = 1
    THEN /\ NumChildren(i) = k
         /\ log[Child(i, k)].ast = Clauses(i)[c].items[1]
         /\ SameResult(log[i], log[Child(i, k)])
    ELSE /\ NumChildren(i) >= k
         /\ log[Child(i, k)].ast = Clauses(i)[c].items[1]
         /\ IF TestTrue(log[Child(i, k)], glossary)
            THEN /\ NumChildren(i) = k + 1
                 /\ log[Child(i, k + 1)].ast = Clauses(i)[c].items[2]
                 /\ SameResult(log[i], log[Child(i, k + 1)])
            ELSE CondWalk(i, c + 1, k + 1, malformedStops, glossary)

\* C7 (as stated): cond goes through its clauses left to right and returns
\* the evaluated result of the first clause that is a one-element clause or
\* a two-element clause with a truthy test, evaluating the tests of the
\* clauses before it and nothing of the clauses after it, malformed or not;
\* with no such clause it returns the error No true condition in cond.
C7_CondFirstSelectedAsStated ==
    \A i \in 1..Len(log) : IsCondEntry(log[i]) => CondWalk(i, 1, 1, FALSE, FALSE)

\* C7 (amended): the same, provided every clause reached before a clause is
\* selected is a List of one or two elements; a clause reached that is not a
\* List ends cond with the error Cond clause must be a list, a List of no or
\* of more than two elements with the error Each cond clause must have
\* exactly one or two elements, nothing further being evaluated.
C7_CondFirstSelected ==
    \A i \in 1..Len(log) : IsCondEntry(log[i]) => CondWalk(i, 1, 1, TRUE, FALSE)

\* a cond with three clauses rejected the first on a test it evaluated,
\* selected the second and returned its result; the third clause, malformed
\* or with a setf for a test, was never touched
C7_Witness ==
    \E i \in 1..Len(log) :
        /\ IsCondEntry(log[i]) /\ log[i].ok /\ Len(Clauses(i)) = 3
        /\ NumChildren(i) \in {2, 3}
        /\ log[Child(i, 1)].ok /\ ~ListedTruthy(log[Child(i, 1)])
        /\ \/ ~ClauseShapeOk(Clauses(i)[3])
           \/ /\ HeadIs(Clauses(i)[3].items[1], "setf")
              /\ ~get_symbol(log[i].envOut, Clauses(i)[3].items[1].items[2].name).some


\* One of the three errors cond raises itself
CondOwnError(e) ==
    \/ FailsWith(e, "No true condition in cond")
    \/ FailsWith(e, "Cond clause must be a list")
    \/ FailsWith(e, "Each cond clause must have exactly one or two elements")

\* The errors met by the cond entry log[i] from clause c and child k on: a
\* failing test is followed by the examination of the next clause (its first
\* expression is the next child; without a next well-formed clause cond ends
\* with an error of its own), a failing expression of a one-element clause
\* or failing result of a selected clause is the last child and its error is
\* what cond returns.
RECURSIVE CondErrors(_, _, _)
CondErrors(i, c, k) ==
    IF c > Len(Clauses(i)) \/ ~ClauseShapeOk(Clauses(i)[c]) THEN TRUE
    ELSE IF Len(Clauses(i)[c].items) = 1
    THEN ~log[Child(i, k)].ok
         => /\ NumChildren(i) = k
            /\ ~log[i].ok /\ log[i].val = log[Child(i, k)].val
    ELSE IF ~log[Child(i, k)].ok
    THEN /\ IF c < Len(Clauses(i)) /\ ClauseShapeOk(Clauses(i)[c + 1])
            THEN /\ NumChildren(i) > k
                 /\ log[Child(i, k + 1)].ast = Clauses(i)[c + 1].items[1]
                 /\ log[Child(i, k + 1)].envIn = log[Child(i, k)].envOut
            ELSE NumChildren(i) = k /\ CondOwnError(log[i])
         /\ CondErrors(i, c + 1, k + 1)
    ELSE IF ListedTruthy(log[Child(i, k)])
    THEN ~log[Child(i, k + 1)].ok
         => /\ NumChildren(i) = k + 1
            /\ ~log[i].ok /\ log[i].val = log[Child(i, k + 1)].val
    ELSE CondErrors(i, c + 1, k + 1)

\* C8: inside cond an error raised by the test of a two-element clause is
\* never cond's result: the test counts as false and the next clause is
\* examined; an error raised by the result expression of the selected clause
\* or by the expression of a one-element clause is what cond returns.
C8_CondTestErrorIsFalse ==
    \A i \in 1..Len(log) :
        IsCondEntry(log[i]) => CondErrors(i, 1, 1)

\* a cond met an error in its first test, went on to the second clause,
\* selected it, and returned the error its result expression raised
C8_Witness ==
    \E i \in 1..Len(log) :
        /\ IsCondEntry(log[i]) /\ NumChildren(i) = 3
        /\ ~log[Child(i, 1)].ok
        /\ log[Child(i, 2)].ok
        /\ ~log[Child(i, 3)].ok
        /\ log[Child(i, 3)].val # log[Child(i, 1)].val
        /\ ~log[i].ok /\ log[i].val = log[Child(i, 3)].val

\* C10 (as stated): the test of a two-element clause counts as false exactly
\* when its value is the empty List, the Integer 0 or the Symbol nil/NIL,
\* and as true for every other value (Floats, Strings, DottedPairs,
\* non-empty Lists, other Symbols): clauses are selected by that rule.
C10_CondTruthinessAsStated ==
    \A i \in 1..Len(log) : IsCondEntry(log[i]) => CondWalk(i, 1, 1, TRUE, TRUE)


----------------------------------------------------------------------------
(* Errors in arguments: a failing argument followed by one with an effect  *)
(* (a setf), for every operator that evaluates its arguments and for calls *)

BinaryOperators ==
    {"+", "-", "*", "/", ">", ">=", "<", "<=", "eq", "ne", "cons", "progn"}
UnaryOperators == {"car", "cdr", "length"}

ErrForms ==
    { Call(o, <<Symbol("zz"), Setf("b", Number(1))>>) : o \in BinaryOperators }
    \cup { Call(o, <<Setf("b", Number(1)), Symbol("zz")>>) : o \in BinaryOperators }
    \cup { Call(o, <<Symbol("zz")>>) : o \in UnaryOperators }
    \cup { Call(o, <<Call("car", <<Number(5)>>)>>) : o \in UnaryOperators }
    \cup
    { Setf("b", Symbol("zz")),                              \* (setf b zz)
      \* (setf b (+ 1 (car zz)))
      Setf("b", Call("+", <<Number(1), Call("car", <<Symbol("zz")>>)>>)),
      \* (defun f (x y) (progn (setf c 1) x))
      Defun("f", <<Symbol("x"), Symbol("y")>>,
            Progn(<<Setf("c", Number(1)), Symbol("x")>>)),
      \* (defun g (x) (/ x 0))
      Defun("g", <<Symbol("x")>>, Call("/", <<Symbol("x"), Number(0)>>)),
      \* (f zz (setf b 1))
      Call("f", <<Symbol("zz"), Setf("b", Number(1))>>),
      \* (f 1 zz)
      Call("f", <<Number(1), Symbol("zz")>>),
      \* (+ 1 (g 2) (setf b 1))
      Call("+", <<Number(1), Call("g", <<Number(2)>>), Setf("b", Number(1))>>),
      \* ((lambda (x y) x) zz (setf b 1))
      List(<<Lambda(<<Symbol("x"), Symbol("y")>>, Symbol("x")), Symbol("zz"),
             Setf("b", Number(1))>>),
      \* ((lambda (x) (car x)) 5)
      List(<<Lambda(<<Symbol("x")>>, Call("car", <<Symbol("x")>>)), Number(5)>>),
      \* (eq (quote p) (quote q))
      Call("eq", <<Quote(Symbol("p")), Quote(Symbol("q"))>>),
      \* (eq (quote p) (quote p))
      Call("eq", <<Quote(Symbol("p")), Quote(Symbol("p"))>>),
      \* (ne (quote a) (quote p))
      Call("ne", <<Quote(Symbol("a")), Quote(Symbol("p"))>>),
      \* (eq (quote a) (quote t))
      Call("eq", <<Quote(Symbol("a")), Quote(Symbol("t"))>>),
      \* (eq a 2)
      Call("eq", <<Symbol("a"), Number(2)>>),
      \* (cond (t (+ 1 zz)) (t 2))
      Cond(<<Clause(Symbol("t"), Call("+", <<Number(1), Symbol("zz")>>)),
             Clause(Symbol("t"), Number(2))>>),
      \* (cond ((+ 1 zz) 1) (t 2))
      Cond(<<Clause(Call("+", <<Number(1), Symbol("zz")>>), Number(1)),
             Clause(Symbol("t"), Number(2))>>) }

NextErr ==
    \/ \E raw \in ErrForms : ReadEval(raw)
    \/ \E value \in CondValues : SetSymbol("a", value)

SpecErr == Init /\ [][NextErr]_vars

\* the operators C9 lists, by the name they are registered under
ArgumentEvaluators ==
    {"+", "-", "*", "/", ">", ">=", "<", "<=", "gt", "gte", "lt", "lte", "eq", "ne",
     "cons", "car", "cdr", "length", "setf", "progn"}

PropagatesErrors(e) ==
    /\ e.fn = "eval"
    /\ \/ \E o \in ArgumentEvaluators : HeadIs(e.ast, o)
       \/ IsFunctionCall(e.ast)
       \/ e.ast.tag = "List" /\ e.ast.items # <<>> /\ e.ast.items[1].tag = "List"

\* C9 (as stated): outside a cond test no error becomes a value: when an
\* evaluation made on behalf of a form of an argument-evaluating operator
\* (+ - * /, the comparisons with eq and ne, cons, car, cdr, length, setf,
\* progn), of a user function call or of a lambda application returns an
\* error, it is the last evaluation the form makes (nothing to its right is
\* evaluated) and the form returns that same error.
C9_ErrorsPropagateAsStated ==
    \A i \in 1..Len(log) :
        PropagatesErrors(log[i])
        => \A j \in Children(i) :
               ~log[j].ok
               => /\ \A x \in Children(i) : x <= j
                  /\ ~log[i].ok /\ log[i].val = log[j].val


----------------------------------------------------------------------------
(* Claims about not *)

Not(x) == Call("not", <<x>>)

NotForms ==
    { Not(NilList),                                         \* (not ())
      Not(Number(0)),                                       \* (not 0)
      Not(Symbol("nil")),                                   \* (not nil)
      Not(Symbol("NIL")),                                   \* (not NIL)
      Not(Symbol("zz")),                                    \* (not zz)
      Not(Symbol("a")),                                     \* (not a)
      Not(Number(1)),                                       \* (not 1)
      Not(Symbol("t")),                                     \* (not t)
      Not(Float(1, 2)),                                     \* (not 0.5)
      Not(Str("")),                                         \* (not "")
      Not(Setf("b", Number(1))),                            \* (not (setf b 1))
      Not(Call("gensym", <<>>)),                            \* (not (gensym))
      Not(Not(Number(1))),                                  \* (not (not 1))
      Not(Quote(NilList)),                                  \* (not (quote ()))
      Not(Call("-", <<Number(1), Number(1)>>)),             \* (not (- 1 1))
      Call("not", <<>>),                                    \* (not)
      Call("not", <<Number(0), Number(0)>>),                \* (not 0 0)
      Setf("b", Not(Symbol("a"))),                          \* (setf b (not a))
      \* (progn (setf nil 5) (not nil))
      Progn(<<Setf("nil", Number(5)), Not(Symbol("nil"))>>),
      \* (cond ((not a) 1) (t 2))
      Cond(<<Clause(Not(Symbol("a")), Number(1)), Clause(Symbol("t"), Number(2))>>) }

NextNot ==
    \/ \E raw \in NotForms : ReadEval(raw)
    \/ \E symbol \in {"a", "nil"}, value \in CondValues : SetSymbol(symbol, value)

SpecNot == Init /\ [][NextNot]_vars

IsNotEntry(e) == e.fn = "eval" /\ HeadIs(e.ast, "not")

\* the three literal forms not answers t to
LiteralFalse(x) == x \in {NilList, Number(0), Symbol("nil")}

\* C11: every evaluation of (not X) with exactly one argument evaluates
\* nothing and leaves the environment as it found it; it returns Symbol t
\* exactly when X is the literal empty List, Integer 0 or Symbol nil, and the
\* empty List for every other X.  With another number of arguments it fails
\* with "not expects exactly one argument", again without evaluating.
C11_NotInspectsLiteral ==
    \A i \in 1..Len(log) :
        IsNotEntry(log[i]) =>
            /\ NumChildren(i) = 0
            /\ log[i].envOut = log[i].envIn
            /\ IF Len(log[i].ast.items) = 2
               THEN /\ log[i].ok
                    /\ log[i].val = IF LiteralFalse(log[i].ast.items[2])
                                    THEN Symbol("t") ELSE NilList
               ELSE /\ ~log[i].ok
                    /\ log[i].val = LispError("not expects exactly one argument")

\* (not (setf b 1)) answered the empty List and b is still unbound
C11_Witness ==
    /\ op = "eval" /\ form = Not(Setf("b", Number(1)))
    /\ result = [ok |-> TRUE, val |-> NilList]
    /\ get_symbol(env, "b") = None
    /\ get_symbol(env, "nil") = Some(Number(2))


----------------------------------------------------------------------------
(* Claims about macros *)

Quasiquote(x) == Call("quasiquote", <<x>>)
Unquote(x) == Call("unquote", <<x>>)

\* (defmacro m (x) (quasiquote (+ (unquote x) 10)))
DefM == Defmacro("m", <<Symbol("x")>>,
                 Quasiquote(Call("+", <<Unquote(Symbol("x")), Number(10)>>)))
\* (defmacro m (x) x)
DefM2 == Defmacro("m", <<Symbol("x")>>, Symbol("x"))
\* (defmacro k () (m 5))
DefK == Defmacro("k", <<>>, Call("m", <<Number(5)>>))
\* (defmacro n () m)
DefN == Defmacro("n", <<>>, Symbol("m"))
\* (defmacro id (x) (quasiquote (unquote x)))
DefId == Defmacro("id", <<Symbol("x")>>, Quasiquote(Unquote(Symbol("x"))))
\* (defmacro d (x y) (quasiquote (a (b (unquote x)) (unquote y) (unquote z))))
DefD == Defmacro("d", <<Symbol("x"), Symbol("y")>>,
                 Quasiquote(Call("a", <<Call("b", <<Unquote(Symbol("x"))>>),
                                        Unquote(Symbol("y")),
                                        Unquote(Symbol("z"))>>)))
\* (defmacro o () (defmacro p () 1))
DefO == Defmacro("o", <<>>, Defmacro("p", <<>>, Number(1)))
\* (defmacro defmacro () 1)
DefDefmacro == Defmacro("defmacro", <<>>, Number(1))

ExpansionForms ==
    { DefM, DefM2, DefK, DefN, DefId, DefD, DefO, DefDefmacro,
      Call("m", <<Number(5)>>),                             \* (m 5)
      Call("m", <<>>),                                      \* (m)
      Call("k", <<>>),                                      \* (k)
      Call("o", <<>>),                                      \* (o)
      Call("defmacro", <<>>),                               \* (defmacro)
      Call("id", <<Number(5)>>),                            \* (id 5)
      \* (d (setf c 1) (gensym))
      Call("d", <<Setf("c", Number(1)), Call("gensym", <<>>)>>),
      \* (m (m 1))
      Call("m", <<Call("m", <<Number(1)>>)>>),
      \* (quote (m 5))
      Quote(Call("m", <<Number(5)>>)),
      \* ((n) 5)
      List(<<Call("n", <<>>), Number(5)>>),
      \* (progn (defmacro m (x) (quasiquote (+ (unquote x) 10))) (defmacro k () (m 5)))
      Progn(<<DefM, DefK>>),
      \* (progn (defmacro m (x) x) (defmacro n () m))
      Progn(<<DefM2, DefN>>) }

NextMacro ==
    \/ \E raw \in ExpansionForms : ReadEval(raw)
    \/ \E name \in {"m", "k"}, macro_def \in ApiMacros : SetMacro(name, macro_def)

SpecMacro == Init /\ [][NextMacro]_vars

RECURSIVE AsRead(_)
RECURSIVE DefinedIn(_)

\* the tree parse_expr returns for the text of x: every definition inside it
\* is replaced by the empty List
AsRead(x) ==
    IF x.tag # "List" THEN x
    ELSE IF IsDefmacro(x) THEN NilList
    ELSE List([k \in 1..Len(x.items) |-> AsRead(x.items[k])])

\* the names defined by the definitions inside x
DefinedIn(x) ==
    IF x.tag # "List" THEN {}
    ELSE (IF IsDefmacro(x) THEN {x.items[2].name} ELSE {})
         \cup UNION {DefinedIn(x.items[k]) : k \in 1..Len(x.items)}

\* the tree the last read returned: the one handed to eval
ReadResult == log[Len(log)].ast

\* the last step read the text of a definition (defmacro name (params) body)
ReadDefmacro == op \in {"eval", "parse_error"} /\ IsDefmacro(form) /\ Len(form.items) = 4

\* what reading a definition does, as C12 states it
DefmacroBinds ==
    ReadDefmacro =>
        LET name == form.items[2].name
        IN /\ op = "eval"
           /\ ReadResult = NilList
           /\ Len(log) = 1
           /\ get_macro(env, name)
                  = Some(Macro(form.items[3].items, AsRead(form.items[4])))
           /\ env.symbols = prev.symbols
           /\ env.functions = prev.functions
           /\ \A q \in DOMAIN prev.macros \ ({name} \cup DefinedIn(form.items[4])) :
                  q \in DOMAIN env.macros /\ env.macros[q] = prev.macros[q]

\* the last step read the text of a call (name args) of a macro bound under
\* name, no definition among the arguments
ReadMacroCall ==
    /\ op \in {"eval", "parse_error"}
    /\ form.tag = "List" /\ form.items # <<>> /\ form.items[1].tag = "Symbol"
    /\ form.items[1].name \in DOMAIN prev.macros
    /\ DefinedIn(List(Tail(form.items))) = {}

\* the call was expanded with the definition bound under its name
ExpandedWithDefinition ==
    LET x == expand(prev.macros[form.items[1].name], Tail(form.items), prev, MaxExpand)
    IN IF x.ok THEN op = "eval" /\ ReadResult = x.val
       ELSE op = "parse_error" /\ result.val = x.val

\* C12 as stated: reading (defmacro name (params) body) returns the empty
\* List, calls eval nowhere, binds name in the macro table to
\* Macro(params, body) with the body as read, leaves the other two tables and
\* the other macros alone; and every later read of (name args) is expanded
\* with the definition bound under name.
C12_DefmacroAsStated ==
    /\ DefmacroBinds
    /\ ReadMacroCall => ExpandedWithDefinition

\* C12, amended: the same, for every later read of (name args) whose name is
\* not defmacro; a list headed by defmacro is always read as a definition.
C12_DefmacroBindsAtReadTime ==
    /\ DefmacroBinds
    /\ (ReadMacroCall /\ form.items[1].name # "defmacro") => ExpandedWithDefinition

\* (defmacro k () (m 5)) was read with m bound: k holds the body (m 5) as it
\* stands
C12_Witness ==
    /\ op = "eval" /\ form = DefK
    /\ "m" \in DOMAIN prev.macros
    /\ get_macro(env, "k") = Some(Macro(<<>>, Call("m", <<Number(5)>>)))


\* E holds, at some depth, a List whose first element is a Symbol bound in
\* the macro table of e
RECURSIVE ContainsMacroCall(_, _)
ContainsMacroCall(E, e) ==
    /\ E.tag = "List"
    /\ \/ E.items # <<>> /\ E.items[1].tag = "Symbol"
          /\ E.items[1].name \in DOMAIN e.macros
       \/ \E k \in 1..Len(E.items) : ContainsMacroCall(E.items[k], e)

\* the last step read the text of a call of a macro with another number of
\* arguments than the macro has parameters
ReadMismatchedCall ==
    /\ ReadMacroCall
    /\ form.items[1].name # "defmacro"
    /\ prev.macros[form.items[1].name].tag = "Macro"
    /\ Len(prev.macros[form.items[1].name].params) # Len(form.items) - 1

\* C13: an expression read successfully contains no macro call at any depth:
\* no List in it has as first element a Symbol bound in the macro table; and
\* the read of a macro call with the wrong number of arguments fails.
C13_ReadLeavesNoMacroCall ==
    /\ op = "eval" => ~ContainsMacroCall(ReadResult, env)
    /\ ReadMismatchedCall => op = "parse_error"


\* the quasiquoted form T with every (unquote p), p a key of substitutions,
\* replaced by the argument bound to p
RECURSIVE Unquoted(_, _)
Unquoted(T, substitutions) ==
    IF T.tag # "List" THEN T
    ELSE IF Len(T.items) = 2 /\ T.items[1] = Symbol("unquote")
            /\ T.items[2].tag = "Symbol" /\ T.items[2].name \in DOMAIN substitutions
    THEN substitutions[T.items[2].name]
    ELSE List([k \in 1..Len(T.items) |-> Unquoted(T.items[k], substitutions)])

\* the last step read the text of a call, with as many arguments as
\* parameters, of a macro whose template is a form (quasiquote T); no macro
\* call among the arguments
ReadQuasiquoteCall ==
    /\ ReadMacroCall
    /\ form.items[1].name # "defmacro"
    /\ LET mac == prev.macros[form.items[1].name]
       IN /\ mac.tag = "Macro"
          /\ Len(mac.params) = Len(form.items) - 1
          /\ mac.body.tag = "List" /\ Len(mac.body.items) = 2
          /\ mac.body.items[1] = Symbol("quasiquote")
    /\ ~ContainsMacroCall(List(Tail(form.items)), prev)

\* C14: the expansion of a call of a macro whose template is (quasiquote T)
\* is T with every (unquote p), p a parameter, replaced in place by the
\* argument bound to p as it was written, at every depth and also when T
\* itself is (unquote p).
C14_UnquoteReplacedByArgument ==
    ReadQuasiquoteCall =>
        LET mac == prev.macros[form.items[1].name]
            substitutions == insert_substitutions(mac.params, Tail(form.items), 1, EmptyMap)
        IN /\ op = "eval"
           /\ ReadResult = Unquoted(mac.body.items[2], substitutions)


----------------------------------------------------------------------------
(* Claims about gensym *)

Gensym == Call("gensym", <<>>)

\* (cond ((car (gensym)) 1) (t (gensym)))
CondGensym ==
    Cond(<<Clause(Call("car", <<Gensym>>), Number(1)), Clause(Symbol("t"), Gensym)>>)

GensymForms ==
    { Gensym,                                               \* (gensym)
      Call("gensym", <<Symbol("zz"), Number(1)>>),          \* (gensym zz 1)
      Setf("a", Gensym),                                    \* (setf a (gensym))
      Progn(<<Gensym, Gensym>>),                            \* (progn (gensym) (gensym))
      \* ((lambda () (gensym)))
      List(<<Lambda(<<>>, Gensym)>>),
      \* ((lambda (x) zz) (gensym))
      List(<<Lambda(<<Symbol("x")>>, Symbol("zz")), Gensym>>),
      \* (progn (defun f (x) (progn (setf b (gensym)) x)) (f (gensym)))
      Progn(<<Defun("f", <<Symbol("x")>>,
                    Progn(<<Setf("b", Gensym), Symbol("x")>>)),
              Call("f", <<Gensym>>)>>),
      CondGensym,
      \* (cond ((gensym) a))
      Cond(<<Clause(Gensym, Symbol("a"))>>),
      Call("+", <<Gensym, Number(1)>>),                     \* (+ (gensym) 1)
      Call("eq", <<Gensym, Gensym>>),                       \* (eq (gensym) (gensym))
      Not(Gensym),                                          \* (not (gensym))
      Symbol("a") }                                         \* a

NextGensym ==
    \/ \E raw \in GensymForms : ReadEval(raw)
    \/ \E value \in {Number(2), Symbol("#:G0")} : SetSymbol("a", value)

SpecGensym == Init /\ [][NextGensym]_vars

\* the executions of gensym among the invocations l, in the order they ran
GensymCalls(l) == {i \in 1..Len(l) : l[i].fn = "eval" /\ HeadIs(l[i].ast, "gensym")}

\* C15: the counter starts at zero, and every step that starts with n
\* gensym calls made so far in the process has its j-th gensym call return
\* the Symbol #:G(n+j-1), whatever frame, environment or cond test it ran in
\* and however that frame ended, and leaves the counter at n plus the number
\* of gensym calls it made.
C15_GensymCountsEveryCall ==
    /\ GENSYM_COUNTER = 0
    /\ [][LET calls == GensymCalls(log')
          IN /\ GENSYM_COUNTER' = GENSYM_COUNTER + Cardinality(calls)
             /\ \A i \in calls :
                    /\ log'[i].ok
                    /\ log'[i].val
                           = Symbol("#:G" \o ToString(GENSYM_COUNTER
                                 + Cardinality({j \in calls : j < i})))]_vars

\* the fourth gensym of the process, run after one in a cond test that ended
\* in an error
C15_Witness ==
    /\ op = "eval" /\ form = CondGensym
    /\ result = [ok |-> TRUE, val |-> Symbol("#:G3")]
    /\ GENSYM_COUNTER = 4


----------------------------------------------------------------------------
(* The reader on texts typed character by character *)

\* characters of a text
MaxLen == 4

TextChars == {"(", ")", " ", "\n", ";", "'", "\"", "-", ".", "1", "a"}

\* the text to be read grows by one character
Type(ch) ==
    /\ op \in {"initialize", "type"}
    /\ Len(text) < MaxLen
    /\ text' = Append(text, ch)
    /\ op' = "type"
    /\ UNCHANGED <<env, GENSYM_COUNTER, OPERATOR_REGISTRY, form, result, prev, log,
                   written, steps, main, locks>>

\* a direct Parser::read(input, env), as the tests make
Read ==
    /\ op \in {"initialize", "type"}
    /\ LET rd == read(text, env)
       IN /\ env' = rd.env
          /\ result' = [ok |-> rd.ok, val |-> rd.val]
    /\ op' = "read"
    /\ prev' = env
    /\ log' = <<>>
    /\ steps' = steps + 1
    /\ UNCHANGED <<GENSYM_COUNTER, OPERATOR_REGISTRY, form, text, written, main, locks>>

NextText ==
    \/ \E ch \in TextChars : Type(ch)
    \/ Read

SpecText == Init /\ [][NextText]_vars

\* the text from its first character that is neither whitespace nor comment
Start == skip_whitespace_and_comments(Chars(text))

\* the first form of the text as parse_expr leaves it
FirstForm == parse_expr(Start, prev)

\* the text holds whitespace and comments only
Blank == peek(Start) = None

\* a character other than whitespace and comments follows the first form
RestAfterFirstForm ==
    FirstForm.ok /\ peek(skip_whitespace_and_comments(FirstForm.chars)) # None

\* the end of the text was reached with a list still open
EndInsideList ==
    ~FirstForm.ok /\ peek(FirstForm.chars) = None /\ FirstForm.chars.open > 0

Failed(message) == result = [ok |-> FALSE, val |-> LispError(message)]

\* the parentheses opened and not closed by the first k characters
Depth(k) ==
    Cardinality({j \in 1..k : text[j] = "("}) - Cardinality({j \in 1..k : text[j] = ")"})

\* a text of parentheses, spaces and the letter a that opens a list with its
\* first character and closes it nowhere
PlainOpenList ==
    /\ text # <<>> /\ text[1] = "("
    /\ \A k \in 1..Len(text) : text[k] \in {"(", ")", " ", "a"} /\ Depth(k) >= 1

\* what C16 says outside the case of an open list, and of an open list in
\* the plain texts
ReadsOneForm ==
    /\ Blank => result = [ok |-> TRUE, val |-> NilList]
    /\ (~Blank /\ RestAfterFirstForm) => Failed("Unexpected input after list")
    /\ result.ok => (Blank \/ (FirstForm.ok /\ ~RestAfterFirstForm))
    /\ PlainOpenList => EndInsideList /\ Failed("Parse Error: Unexpected end of list")

QuoteChars == {"'", ",", Backquote}

Occurs(chs) == \E k \in 1..Len(text) : text[k] \in chs

RECURSIVE TokenString(_)
TokenString(cs) ==
    IF cs = <<>> \/ is_whitespace(Head(cs)) \/ Head(cs) \in {"(", ")"} THEN ""
    ELSE Head(cs) \o TokenString(Tail(cs))

RECURSIVE TokenLen(_)
TokenLen(cs) ==
    IF cs = <<>> \/ is_whitespace(Head(cs)) \/ Head(cs) \in {"(", ")"} THEN 0
    ELSE 1 + TokenLen(Tail(cs))

Negated(x) ==
    IF x.tag = "Number" THEN Number(-x.n) ELSE Float(-x.num, x.den)

\* the rule of C17 for the token that starts with the minus sign at p
MinusRule(p) ==
    LET rest == SubSeq(text, p + 1, Len(text))
        token == parse_expr([s |-> text, i |-> p, open |-> 0], prev)
        unsigned == parse_number(Chars(rest), prev)
    IN IF rest = <<>> THEN ~token.ok /\ token.val = LispError("Invalid number")
       ELSE IF is_digit(rest[1]) \/ rest[1] = "."
       THEN IF unsigned.ok
            THEN /\ token.ok
                 /\ token.val = Negated(unsigned.val)
                 /\ token.chars.i = p + unsigned.chars.i
            ELSE ~token.ok
       ELSE IF is_whitespace(rest[1]) \/ rest[1] \in {"(", ")"}
       THEN token.ok /\ token.val = Symbol("-") /\ token.chars.i = p + 1
       ELSE /\ token.ok
            /\ token.val = Symbol("-" \o TokenString(rest))
            /\ token.chars.i = p + 1 + TokenLen(rest)

\* C17: a token that starts with a minus sign is read by its next character
\* alone: before a digit or a period it is the negative of the number the
\* rest reads as under the rules of unsigned numbers, and an error where the
\* rest is no number; before whitespace or a parenthesis it is the Symbol -;
\* at the end of the text it is the error "Invalid number"; before anything
\* else it is the Symbol of the minus sign and the rest of the token.
C17_MinusTokenAsStated ==
    op = "read" => \A p \in 1..Len(text) : text[p] = "-" => MinusRule(p)


----------------------------------------------------------------------------
(* Claims about print and read *)

PrintableAtoms ==
    { Symbol("a"), Symbol("-"), Symbol("f2"), Number(0), Number(7), Number(-42),
      Str(""), Str("s"), Str("a\"b"), Str("a\\b"), NilList }

\* Symbols, Integers, Strings and proper Lists of them
PrintableForms ==
    PrintableAtoms
    \cup {List(<<x>>) : x \in PrintableAtoms}
    \cup {List(<<x, y>>) : x \in PrintableAtoms,
                            y \in {Symbol("a"), Number(-42), Str("a\\b"), NilList}}
    \cup { List(<<Number(-42), Str("s")>>),                 \* (-42 "s")
           List(<<Symbol("-"), Number(2), Number(-1)>>),    \* (- 2 -1)
           \* (() (a 7) "a\b")
           List(<<NilList, List(<<Symbol("a"), Number(7)>>), Str("a\\b")>>),
           \* (a (a (a "")))
           Call("a", <<Call("a", <<Call("a", <<Str("")>>)>>)>>) }

NextPrint == \E X \in PrintableForms : ReadEval(X)

SpecPrint == Init /\ [][NextPrint]_vars

\* C18: the text printed for an Expression X of Symbols, Integers, Strings
\* and proper Lists reads back, in an environment without macros, as X.
C18_ReadOfPrintedIsSame ==
    (op \in {"eval", "parse_error"} /\ form \in PrintableForms) =>
        op = "eval" /\ ReadResult = form


----------------------------------------------------------------------------
(* Claims about arithmetic *)

ArithmeticOperators == {"+", "-", "*", "/"}

\* the argument lists tried with each operator
ArithmeticArgs ==
    { <<>>,
      <<Number(1), Number(2)>>,
      <<Number(7), Number(2)>>,
      <<Number(6), Number(2), Number(3)>>,
      <<Number(5)>>,
      <<Float(1, 2)>>,
      <<Symbol("a")>>,
      <<Symbol("a"), Number(1)>>,
      <<Number(1), Symbol("a")>>,
      <<Float(3, 2), Number(1)>>,
      <<Number(1), Float(1, 2)>>,
      \* (+ 0.5 1.5) is the Float 2
      <<Call("+", <<Float(1, 2), Float(3, 2)>>)>>,
      <<Call("+", <<Float(1, 2), Float(3, 2)>>), Number(1)>>,
      <<Number(1), Call("+", <<Float(1, 2), Float(3, 2)>>)>>,
      <<Number(1), Symbol("zz")>>,
      <<Number(1), Str("s")>> }

ArithmeticForms == {Call(o, args) : o \in ArithmeticOperators, args \in ArithmeticArgs}

ArithmeticValues == {Number(2), Float(2, 1), Float(3, 2)}

NextArith ==
    \/ \E raw \in ArithmeticForms : ReadEval(raw)
    \/ \E value \in ArithmeticValues : SetSymbol("a", value)

SpecArith == Init /\ [][NextArith]_vars

IsArithmeticEntry(e) ==
    /\ e.fn = "eval" /\ e.ast.tag = "List" /\ e.ast.items # <<>>
    /\ e.ast.items[1].tag = "Symbol"
    /\ e.ast.items[1].name \in ArithmeticOperators

\* C19: an arithmetic form that returns a value returns a Float whenever one
\* of its operands evaluated to a Float, in whatever position and however
\* the operand was written, also as the single operand; when every operand
\* evaluated to an Integer it returns an Integer unless the result has a
\* fractional part.
C19_FloatOperandGivesFloat ==
    \A i \in 1..Len(log) :
        (IsArithmeticEntry(log[i]) /\ log[i].ok) =>
            /\ log[i].val.tag \in {"Number", "Float"}
            /\ (\E j \in Children(i) : log[j].val.tag = "Float")
                   => log[i].val.tag = "Float"
            /\ (\A j \in Children(i) : log[j].val.tag = "Number")
                   => (log[i].val.tag = "Number" \/ log[i].val.den # 1)


----------------------------------------------------------------------------
(* Claims about eq and ne on Symbols *)

\* pairs of expressions that evaluate to Symbols, or fail
SymbolPairs ==
    { <<Quote(Symbol("a")), Quote(Symbol("a"))>>,           \* 'a 'a
      <<Quote(Symbol("a")), Quote(Symbol("b"))>>,           \* 'a 'b
      <<Quote(Symbol("t")), Quote(Symbol("T"))>>,           \* 't 'T
      <<Quote(Symbol("zz")), Quote(Symbol("zz"))>>,         \* 'zz 'zz
      <<Quote(Symbol("zz")), Quote(Symbol("yy"))>>,         \* 'zz 'yy
      <<Symbol("a"), Symbol("b")>>,                         \* a b
      <<Symbol("a"), Quote(Symbol("b"))>>,                  \* a 'b
      <<Symbol("t"), Symbol("T")>>,                         \* t T
      <<Quote(Symbol("a")), Number(1)>> }                   \* 'a 1

EqForms == {Call(o, <<p[1], p[2]>>) : o \in {"eq", "ne"}, p \in SymbolPairs}

EqValues == {Symbol("b"), Symbol("zz"), Number(1)}

NextEq ==
    \/ \E raw \in EqForms : ReadEval(raw)
    \/ \E symbol \in {"a", "b"}, value \in EqValues : SetSymbol(symbol, value)

SpecEq == Init /\ [][NextEq]_vars

\* an eq or ne whose two arguments evaluated to Symbols
ComparesSymbols(i) ==
    /\ log[i].fn = "eval" /\ log[i].ok
    /\ (HeadIs(log[i].ast, "eq") \/ HeadIs(log[i].ast, "ne"))
    /\ Len(log[i].ast.items) = 3
    /\ log[Child(i, 1)].val.tag = "Symbol"
    /\ log[Child(i, 2)].val.tag = "Symbol"

\* C20: when both arguments of eq evaluate to Symbols the result is Symbol t
\* exactly when the two names are equal, and the empty List otherwise,
\* whatever the names are bound to; ne returns the opposite.
C20_SymbolsComparedByName ==
    \A i \in 1..Len(log) :
        ComparesSymbols(i) =>
            LET same == log[Child(i, 1)].val.name = log[Child(i, 2)].val.name
            IN log[i].val = IF same = HeadIs(log[i].ast, "eq")
                            THEN Symbol("t") ELSE NilList


----------------------------------------------------------------------------
(* Claims about eq on Lists *)

List12 == List(<<Number(1), Number(2)>>)

EqListForms ==
    { Call("eq", <<Symbol("a"), Symbol("a")>>),             \* (eq a a)
      Call("eq", <<Symbol("a"), Symbol("b")>>),             \* (eq a b)
      Call("eq", <<Quote(List12), Quote(List12)>>),         \* (eq '(1 2) '(1 2))
      Call("eq", <<Symbol("a"), Quote(List12)>>),           \* (eq a '(1 2))
      Call("eq", <<NilList, NilList>>),                     \* (eq () ())
      Call("eq", <<Symbol("a"), Number(1)>>),               \* (eq a 1)
      Call("ne", <<Symbol("a"), Symbol("a")>>),             \* (ne a a)
      Setf("a", Quote(List12)),                             \* (setf a '(1 2))
      Setf("b", Symbol("a")),                               \* (setf b a)
      \* (progn (setf a '(1 2)) (eq a a))
      Progn(<<Setf("a", Quote(List12)), Call("eq", <<Symbol("a"), Symbol("a")>>)>>) }

EqListValues == {List12, NilList, List(<<Number(1)>>), Number(1)}

NextEqList ==
    \/ \E raw \in EqListForms : ReadEval(raw)
    \/ \E symbol \in {"a", "b"}, value \in EqListValues : SetSymbol(symbol, value)

SpecEqList == Init /\ [][NextEqList]_vars

\* an eq whose two arguments evaluated to Lists
ComparesLists(i) ==
    /\ log[i].fn = "eval" /\ log[i].ok
    /\ HeadIs(log[i].ast, "eq")
    /\ Len(log[i].ast.items) = 3
    /\ log[Child(i, 1)].val.tag = "List"
    /\ log[Child(i, 2)].val.tag = "List"

\* the two arguments are one variable written twice: one list object
SameVariable(ast) == ast.items[2].tag = "Symbol" /\ ast.items[3] = ast.items[2]

\* the two arguments are two quote forms or two empty lists: two lists built
\* apart
BuiltApart(ast) ==
    \A k \in {2, 3} : HeadIs(ast.items[k], "quote") \/ ast.items[k] = NilList

\* C21: when both arguments of eq evaluate to Lists, eq returns Symbol t for
\* the same list object, as in (eq a a), and the empty List for two lists
\* built apart, however equal their elements.
C21_ListsComparedByIdentity ==
    \A i \in 1..Len(log) :
        ComparesLists(i) =>
            /\ SameVariable(log[i].ast) => log[i].val = Symbol("t")
            /\ BuiltApart(log[i].ast) => log[i].val = NilList


----------------------------------------------------------------------------
(* Claims about cons, car and cdr *)

Cons(x, y) == Call("cons", <<x, y>>)
Car(x) == Call("car", <<x>>)
Cdr(x) == Call("cdr", <<x>>)

ListForms ==
    { Cons(Number(5), Symbol("a")),                         \* (cons 5 a)
      Car(Cons(Number(5), Symbol("a"))),                    \* (car (cons 5 a))
      Cdr(Cons(Number(5), Symbol("a"))),                    \* (cdr (cons 5 a))
      Cons(Quote(Symbol("x")), Symbol("a")),                \* (cons 'x a)
      Cdr(Cons(Symbol("a"), Symbol("a"))),                  \* (cdr (cons a a))
      Car(Cons(Symbol("a"), Symbol("a"))),                  \* (car (cons a a))
      Cons(Number(1), Number(2)),                           \* (cons 1 2)
      Cons(Symbol("a"), Str("s")),                          \* (cons a "s")
      Car(NilList),                                         \* (car ())
      Cdr(NilList),                                         \* (cdr ())
      Cdr(Quote(List(<<Number(1)>>))),                      \* (cdr '(1))
      Car(Quote(List(<<Number(1)>>))),                      \* (car '(1))
      Car(Symbol("a")),                                     \* (car a)
      Cdr(Symbol("a")),                                     \* (cdr a)
      Car(Number(5)),                                       \* (car 5)
      Call("cons", <<Number(1)>>),                          \* (cons 1)
      \* (progn (cons 5 a) a)
      Progn(<<Cons(Number(5), Symbol("a")), Symbol("a")>>) }

ListValues ==
    { List12, NilList, List(<<Number(1)>>), List(<<List12, Symbol("x")>>), Number(1) }

NextList ==
    \/ \E raw \in ListForms : ReadEval(raw)
    \/ \E value \in ListValues : SetSymbol("a", value)

SpecList == Init /\ [][NextList]_vars

\* a successful evaluation of a form headed by name
IsOkEntry(i, name) == log[i].fn = "eval" /\ log[i].ok /\ HeadIs(log[i].ast, name)

\* the value of the k-th argument of log[i]
ArgValue(i, k) == log[Child(i, k)].val

\* the environment the last argument of log[i] left
EnvAfterArgs(i) == log[Child(i, NumChildren(i))].envOut

ElementsAfterFirst(L) == IF Len(L.items) > 1 THEN List(Tail(L.items)) ELSE NilList

\* C22: cons of x and a List L is the list of x followed by the elements of
\* L, cons of x and a y that is no List is DottedPair(x, y); car of a List is
\* its first element and cdr the list of the others, so that car of a cons
\* is its first argument's value and cdr of a cons on a List is that List;
\* car and cdr of the empty List and cdr of a one-element list are the empty
\* List; and none of the three changes a binding: the environment is the one
\* the arguments left.
C22_ConsCarCdr ==
    \A i \in 1..Len(log) :
        /\ IsOkEntry(i, "cons") =>
              /\ log[i].val = IF ArgValue(i, 2).tag = "List"
                              THEN List(<<ArgValue(i, 1)>> \o ArgValue(i, 2).items)
                              ELSE DottedPair(ArgValue(i, 1), ArgValue(i, 2))
              /\ log[i].envOut = EnvAfterArgs(i)
        /\ IsOkEntry(i, "car") =>
              /\ log[i].val = IF ArgValue(i, 1).items = <<>> THEN NilList
                              ELSE ArgValue(i, 1).items[1]
              /\ IsOkEntry(Child(i, 1), "cons") =>
                     log[i].val = ArgValue(Child(i, 1), 1)
              /\ log[i].envOut = EnvAfterArgs(i)
        /\ IsOkEntry(i, "cdr") =>
              /\ log[i].val = ElementsAfterFirst(ArgValue(i, 1))
              /\ (IsOkEntry(Child(i, 1), "cons") /\ ArgValue(Child(i, 1), 2).tag = "List")
                     => log[i].val = ArgValue(Child(i, 1), 2)
              /\ log[i].envOut = EnvAfterArgs(i)

\* (cdr (cons 5 a)) returned the list (1 2) bound to a, and a is still bound
\* to it
C22_Witness ==
    /\ op = "eval" /\ form = Cdr(Cons(Number(5), Symbol("a")))
    /\ result = [ok |-> TRUE, val |-> List12]
    /\ get_symbol(prev, "a") = Some(List12)
    /\ get_symbol(env, "a") = Some(List12)


----------------------------------------------------------------------------
(* Claims about the loops of main.rs *)

\* input.chars().filter(|&ch| ch == c).count()
RECURSIVE count(_, _)
count(input, c) ==
    IF input = <<>> THEN 0
    ELSE (IF input[1] = c THEN 1 ELSE 0) + count(Tail(input), c)

\* usize::saturating_sub
saturating_sub(a, b) == IF b > a THEN 0 ELSE a - b

\* what the lines of a terminal or of a file hold, without the line end
Lines ==
    { <<>>, <<"(">>, <<")">>, <<"a">>, <<"(", "a">>, <<"a", ")">>, <<"(", ")">>,
      <<")", ")">>, <<"(", "(">>, <<"\"", ")", "\"">> }

\* the part of the loop body both loops share: once the line is appended and
\* counted, a counter of zero hands the buffer to Parser::read, the tree to
\* Evaluator::eval, and clears the buffer; rd is the Result of that read
Dispatch(buffer, parens, rd) ==
    IF parens = 0
    THEN /\ EvalRead(rd.val, rd)
         /\ form' = (IF rd.ok THEN rd.val ELSE NilList)
         /\ text' = buffer
         /\ prev' = env
         /\ input_accumulated' = <<>>
         /\ UNCHANGED OPERATOR_REGISTRY
    ELSE /\ op' = "line"
         /\ input_accumulated' = buffer
         /\ UNCHANGED <<env, GENSYM_COUNTER, OPERATOR_REGISTRY, form, text, result,
                        prev, log, written>>

\* Lisp::repl, one turn of the loop on a line that is not "exit"; read_line
\* keeps the line end
repl(input) ==
    /\ running \in {"none", "repl"}
    /\ steps < MaxSteps
    /\ running' = "repl"
    /\ line' = input
    /\ steps' = steps + 1
    /\ UNCHANGED locks
    /\ open_parens' = saturating_sub(open_parens + count(input, "("), count(input, ")"))
    /\ Dispatch(input_accumulated \o input,
                saturating_sub(open_parens + count(input, "("), count(input, ")")),
                read(input_accumulated \o input, env))

\* Lisp::repl on the line "exit": break
repl_exit ==
    /\ running \in {"none", "repl"}
    /\ running' = "exited"
    /\ line' = <<"exit", "\n">>
    /\ UNCHANGED <<env, GENSYM_COUNTER, OPERATOR_REGISTRY, op, form, text, result,
                   prev, log, written, steps, input_accumulated, open_parens, locks>>

\* open_parens is a usize.  The model keeps a value below 2^64 as it is and a
\* value v that wrapped around as the negative number v - 2^64, so that +=
\* and -= without overflow checks are the addition and subtraction of
\* integers.  `open_parens -= n` with n above the counter panics in a build
\* with overflow checks and wraps around in one without.
interpreter(input) ==
    /\ running \in {"none", "interpreter"}
    /\ steps < MaxSteps
    /\ line' = input
    /\ steps' = steps + 1
    /\ UNCHANGED locks
    /\ IF open_parens + count(input, "(") >= 0
          /\ count(input, ")") > open_parens + count(input, "(")
       THEN \/ /\ running' = "panicked"
               /\ open_parens' = open_parens + count(input, "(")
               /\ input_accumulated' = input_accumulated \o input
               /\ op' = "panic"
               /\ UNCHANGED <<env, GENSYM_COUNTER, OPERATOR_REGISTRY, form, text,
                              result, prev, log, written>>
            \/ /\ running' = "interpreter"
               /\ open_parens' = open_parens + count(input, "(") - count(input, ")")
               /\ Dispatch(input_accumulated \o input,
                           open_parens + count(input, "(") - count(input, ")"),
                           read(input_accumulated \o input, env))
       ELSE /\ running' = "interpreter"
            /\ open_parens' = open_parens + count(input, "(") - count(input, ")")
            /\ Dispatch(input_accumulated \o input,
                        open_parens + count(input, "(") - count(input, ")"),
                        read(input_accumulated \o input, env))

NextMain ==
    \/ \E input \in Lines : repl(input \o <<"\n">>)
    \/ repl_exit
    \/ \E input \in Lines : interpreter(input)

SpecMain == Init /\ [][NextMain]_vars

\* the step is a turn of one of the two loops on a line
LoopTurn == steps' = steps + 1

\* the turn called Parser::read
CalledRead == op' \in {"eval", "parse_error"}

\* the line of the turn holds more ")" than are open, those it opens included
ClosesTooMany == count(line', ")") > open_parens + count(line', "(")

\* C23: in both loops, on every line: the counter of open parentheses never
\* goes below zero and the loop does not crash; read is called exactly when
\* the counter is zero once the line is appended; a line with more ")" than
\* are open gives a Parse Error output; and after every call of read the
\* buffer is empty.
C23_LoopsAsStated ==
    [][LoopTurn =>
          /\ running' # "panicked"
          /\ open_parens' >= 0
          /\ CalledRead <=> open_parens' = 0
          /\ ClosesTooMany => op' = "parse_error"
          /\ CalledRead => input_accumulated' = <<>>]_vars

\* what holds of both loops: read is called exactly when the counter is zero
\* and leaves an empty buffer
C23_ReadAtZero ==
    [][LoopTurn =>
          /\ running' # "panicked" => (CalledRead <=> open_parens' = 0)
          /\ CalledRead => input_accumulated' = <<>>]_vars


----------------------------------------------------------------------------
(* Claims about the Operator Registry and the function table *)

Minus == Lambda(<<Symbol("a"), Symbol("b")>>, Call("-", <<Symbol("a"), Symbol("b")>>))

RegistryForms ==
    { \* (defun + (a b) (- a b))
      Defun("+", <<Symbol("a"), Symbol("b")>>, Call("-", <<Symbol("a"), Symbol("b")>>)),
      \* (defun car (x) 7)
      Defun("car", <<Symbol("x")>>, Number(7)),
      \* (defun f (a b) (- a b))
      Defun("f", <<Symbol("a"), Symbol("b")>>, Call("-", <<Symbol("a"), Symbol("b")>>)),
      Call("+", <<Number(1), Number(2)>>),                  \* (+ 1 2)
      Call("f", <<Number(1), Number(2)>>),                  \* (f 1 2)
      Call("car", <<Quote(List12)>>),                       \* (car '(1 2))
      Call("quote", <<Number(1), Number(2)>>),              \* (quote 1 2)
      Call("+", <<Call("f", <<Number(1), Number(2)>>), Number(2)>>),  \* (+ (f 1 2) 2)
      Call("f", <<Call("+", <<Number(1), Number(2)>>), Number(2)>>),  \* (f (+ 1 2) 2)
      \* (progn (defun + (a b) (- a b)) (+ 1 2))
      Progn(<<Defun("+", <<Symbol("a"), Symbol("b")>>,
                    Call("-", <<Symbol("a"), Symbol("b")>>)),
              Call("+", <<Number(1), Number(2)>>)>>) }

NextRegistry ==
    \/ \E raw \in RegistryForms : ReadEval(raw)
    \/ \E name \in {"+", "quote", "car", "f"} : SetFunction(name, Minus)

SpecRegistry == Init /\ [][NextRegistry]_vars

\* an evaluation of a non-empty list whose head Symbol is a key of the
\* Operator Registry
IsRegisteredCall(i) ==
    /\ log[i].fn = "eval"
    /\ log[i].ast.tag = "List" /\ log[i].ast.items # <<>>
    /\ log[i].ast.items[1].tag = "Symbol"
    /\ log[i].ast.items[1].name \in DOMAIN OPERATOR_REGISTRY

\* the world the operator of log[i] is handed
WorldIn(i) ==
    [env |-> log[i].envIn, g |-> log[i].gIn, log |-> <<>>, depth |-> log[i].depth,
     level |-> log[i].level + 1]

\* what the registered operator makes of the unevaluated tail of log[i]
ByRegisteredOperator(i) ==
    apply_operator(OPERATOR_REGISTRY[log[i].ast.items[1].name],
                   Tail(log[i].ast.items), WorldIn(i))

\* log[i] itself went to the function table
InvokedFunction(i) ==
    \E j \in 1..(i - 1) :
        /\ log[j].fn = "eval_function_call"
        /\ log[j].ast = log[i].ast
        /\ log[j].level = log[i].level + 1
        /\ \A k \in j..(i - 1) : log[k].level > log[i].level

\* C24: a non-empty list whose head Symbol is a key of the Operator Registry
\* is evaluated by the registered operator applied to the unevaluated tail,
\* whatever the function table holds under that name, and the function table
\* is not consulted for it.
C24_RegistryBeforeFunctions ==
    \A i \in 1..Len(log) : IsRegisteredCall(i) =>
        /\ ~InvokedFunction(i)
        /\ log[i].ok = ByRegisteredOperator(i).ok
        /\ log[i].val = ByRegisteredOperator(i).val
        /\ log[i].envOut = ByRegisteredOperator(i).w.env

\* with a user function stored under +, (+ 1 2) is 3
C24_Witness ==
    /\ op = "eval" /\ form = Call("+", <<Number(1), Number(2)>>)
    /\ get_function(prev, "+") = Some(Minus)
    /\ result = [ok |-> TRUE, val |-> Number(3)]


----------------------------------------------------------------------------
(* Claims about the order of evaluation *)

\* (progn (setf a 5) 7)
SetAndSeven == Progn(<<Setf("a", Number(5)), Number(7)>>)

OrderForms ==
    { Call("+", <<Setf("a", Number(1)), Symbol("a")>>),               \* (+ (setf a 1) a)
      Call("-", <<Setf("a", Number(5)), Symbol("a"), Number(1)>>),    \* (- (setf a 5) a 1)
      Call("*", <<Symbol("a"), Setf("a", Number(3))>>),               \* (* a (setf a 3))
      Call(">", <<Setf("a", Number(3)), Symbol("a")>>),               \* (> (setf a 3) a)
      Call("eq", <<Quote(Symbol("a")), Quote(Symbol("b"))>>),         \* (eq 'a 'b)
      Call("cons", <<Call("gensym", <<>>), Call("gensym", <<>>)>>),   \* (cons (gensym) (gensym))
      Progn(<<Setf("a", Number(2)), Symbol("a")>>),                   \* (progn (setf a 2) a)
      Call("cons", <<SetAndSeven, Symbol("a")>>),                     \* (cons (progn (setf a 5) 7) a)
      \* (defun f (a b) b)
      Defun("f", <<Symbol("a"), Symbol("b")>>, Symbol("b")),
      \* (defun f (x y) y)
      Defun("f", <<Symbol("x"), Symbol("y")>>, Symbol("y")),
      Call("f", <<SetAndSeven, Symbol("a")>>),                        \* (f (progn (setf a 5) 7) a)
      \* ((lambda (a b) b) (progn (setf a 5) 7) a)
      List(<<Lambda(<<Symbol("a"), Symbol("b")>>, Symbol("b")), SetAndSeven, Symbol("a")>>),
      \* ((lambda (x y) y) (progn (setf a 5) 7) a)
      List(<<Lambda(<<Symbol("x"), Symbol("y")>>, Symbol("y")), SetAndSeven, Symbol("a")>>) }

NextOrder ==
    \/ \E raw \in OrderForms : ReadEval(raw)
    \/ \E value \in {Number(10), List12} : SetSymbol("a", value)

SpecOrder == Init /\ [][NextOrder]_vars

SeveralArguments ==
    {"+", "-", "*", "/", ">", "gt", ">=", "gte", "<", "lt", "<=", "lte", "eq", "ne",
     "cons", "progn"}

\* an invocation that evaluates the arguments of a form one by one
EvaluatesArguments(i) ==
    \/ /\ log[i].fn = "eval"
       /\ \E name \in SeveralArguments : HeadIs(log[i].ast, name)
    \/ log[i].fn \in {"eval_function_call", "eval_lambda_call"}

Arguments(i) == Tail(log[i].ast.items)

\* the evaluations log[i] made before its arguments: the head of a lambda
\* application
BeforeArguments(i) == IF log[i].fn = "eval_lambda_call" THEN 1 ELSE 0

\* the evaluations log[i] made after its arguments: the body of a call; the
\* two values of an eq or ne that are Symbols
AfterArguments(i) ==
    IF log[i].fn \in {"eval_function_call", "eval_lambda_call"} THEN {0, 1}
    ELSE IF HeadIs(log[i].ast, "eq") \/ HeadIs(log[i].ast, "ne") THEN {0, 2}
    ELSE {0}

ArgumentChild(i, k) == Child(i, k + BeforeArguments(i))

\* how many arguments log[i] came to evaluate
Evaluated(i) ==
    IF NumChildren(i) - BeforeArguments(i) < Len(Arguments(i))
    THEN NumChildren(i) - BeforeArguments(i)
    ELSE Len(Arguments(i))

\* the invocations made while log[c] ran, log[c] included
Inside(c) == {x \in 1..c : \A y \in x..(c - 1) : log[y].level > log[c].level}

\* the gensym counter log[c] left
CounterAfter(c) ==
    log[c].gIn + Cardinality({x \in Inside(c) : log[x].fn = "eval"
                                               /\ HeadIs(log[x].ast, "gensym")})

\* the names of table whose binding log[c] changed
Changed(c, table) ==
    {s \in DOMAIN log[c].envOut[table] :
        s \in DOMAIN log[c].envIn[table] => log[c].envIn[table][s] # log[c].envOut[table][s]}

\* every binding log[c] changed is the one log[d] starts with
VisibleTo(c, d) ==
    \A table \in {"symbols", "functions"} : \A s \in Changed(c, table) :
        /\ s \in DOMAIN log[d].envIn[table]
        /\ log[d].envIn[table][s] = log[c].envOut[table][s]

\* C25: an operator with several arguments, a user function call and a
\* lambda application evaluate their arguments left to right, each exactly
\* once, and each argument starts with every binding the argument before it
\* changed and with the gensym counter that argument left.
C25_LeftToRightAsStated ==
    \A i \in 1..Len(log) : EvaluatesArguments(i) =>
        /\ log[i].ok => Evaluated(i) = Len(Arguments(i))
        /\ NumChildren(i) - BeforeArguments(i) - Evaluated(i) \in AfterArguments(i)
        /\ \A k \in 1..Evaluated(i) : log[ArgumentChild(i, k)].ast = Arguments(i)[k]
        /\ \A k \in 1..(Evaluated(i) - 1) :
               /\ VisibleTo(ArgumentChild(i, k), ArgumentChild(i, k + 1))
               /\ log[ArgumentChild(i, k + 1)].gIn = CounterAfter(ArgumentChild(i, k))

\* the same of the operators alone
C25_LeftToRightInOperators ==
    \A i \in 1..Len(log) : (EvaluatesArguments(i) /\ log[i].fn = "eval") =>
        /\ log[i].ok => Evaluated(i) = Len(Arguments(i))
        /\ NumChildren(i) - Evaluated(i) \in AfterArguments(i)
        /\ \A k \in 1..Evaluated(i) : log[ArgumentChild(i, k)].ast = Arguments(i)[k]
        /\ \A k \in 1..(Evaluated(i) - 1) :
               /\ VisibleTo(ArgumentChild(i, k), ArgumentChild(i, k + 1))
               /\ log[ArgumentChild(i, k + 1)].gIn = CounterAfter(ArgumentChild(i, k))


----------------------------------------------------------------------------
(* Claims about the termination of macro expansion *)

\* (defmacro m (x) (x x))
DefApply == Defmacro("m", <<Symbol("x")>>, List(<<Symbol("x"), Symbol("x")>>))
\* (defmacro c () (c))
DefCircular == Defmacro("c", <<>>, Call("c", <<>>))
\* (defmacro k (x) (+ x x))
DefTwice == Defmacro("k", <<Symbol("x")>>, Call("+", <<Symbol("x"), Symbol("x")>>))
\* (defmacro c () (k 1))
DefChain == Defmacro("c", <<>>, Call("k", <<Number(1)>>))

TerminationForms ==
    { DefApply, DefCircular, DefTwice, DefChain,
      Call("m", <<Symbol("m")>>),                           \* (m m)
      Call("m", <<Symbol("k")>>),                           \* (m k)
      Call("m", <<Symbol("car")>>),                         \* (m car)
      Call("c", <<>>),                                      \* (c)
      Call("k", <<Number(1)>>),                             \* (k 1)
      Call("k", <<Call("k", <<Number(1)>>)>>),              \* (k (k 1))
      Call("k", <<Call("c", <<>>)>>) }                      \* (k (c))

\* Parser::read running out of stack: the process is killed
Killed(raw, rd) ==
    /\ op # "abort"
    /\ steps < MaxSteps
    /\ rd.val.tag = "StackOverflow"
    /\ op' = "abort"
    /\ env' = rd.env
    /\ result' = [ok |-> FALSE, val |-> rd.val]
    /\ form' = raw
    /\ text' = fmt(raw)
    /\ prev' = env
    /\ log' = <<>>
    /\ steps' = steps + 1
    /\ UNCHANGED <<GENSYM_COUNTER, OPERATOR_REGISTRY, written, main, locks>>

ReadKilled(raw) == Killed(raw, read(fmt(raw), env))

\* env.set_macro of the macros of DefApply, DefTwice and DefCircular
ApiTermination ==
    { <<"m", Macro(<<Symbol("x")>>, List(<<Symbol("x"), Symbol("x")>>))>>,
      <<"k", Macro(<<Symbol("x")>>, Call("+", <<Symbol("x"), Symbol("x")>>))>>,
      <<"c", Macro(<<>>, Call("c", <<>>))>>,
      <<"c", Macro(<<>>, Call("m", <<Symbol("k")>>))>> }

NextTermination ==
    \/ \E raw \in TerminationForms : op # "abort" /\ ReadEval(raw)
    \/ \E raw \in TerminationForms : ReadKilled(raw)
    \/ \E api \in ApiTermination : op # "abort" /\ SetMacro(api[1], api[2])

SpecTermination == Init /\ [][NextTermination]_vars

\* the head Symbols of the lists in a template, at any depth
RECURSIVE Heads(_)
Heads(template) ==
    IF template.tag # "List" \/ template.items = <<>> THEN {}
    ELSE (IF template.items[1].tag = "Symbol" THEN {template.items[1].name} ELSE {})
         \cup UNION {Heads(template.items[k]) : k \in 1..Len(template.items)}

\* the macros whose calls the template of macro m contains
CallsOf(macros, m) == Heads(macros[m].body) \cap DOMAIN macros

\* the macros reached from those of from in at most n steps through templates
RECURSIVE Through(_, _, _)
Through(macros, from, n) ==
    IF n = 0 THEN from
    ELSE Through(macros, from \cup UNION {CallsOf(macros, m) : m \in from}, n - 1)

\* no template contains, directly or through other templates, a call to its
\* own macro
NonCircular(macros) ==
    \A m \in DOMAIN macros :
        m \notin Through(macros, CallsOf(macros, m), Cardinality(DOMAIN macros))

\* C26: with a macro table in which no macro is circular, macro expansion of
\* every input terminates, whatever the arguments of the calls are: no read
\* runs out of stack.
C26_ExpansionTerminates ==
    (op = "abort") => ~NonCircular(env.macros)


----------------------------------------------------------------------------
(* Claims about the Operator Registry over the life of the process *)

\* a register that replaces the whole table by the one entry
register_alone(registry, name, func) == Put(EmptyMap, name, func)

\* OperatorRegistry::register
register(registry, name, func) == Put(registry, name, func)

\* the names in the order mod.rs initialize() registers them
Registered ==
    <<"+", "-", "*", "/", ">", "gt", ">=", "gte", "<", "lt", "<=", "lte", "eq",
      "ne", "cond", "not", "gensym", "defun", "lambda", "progn", "cons", "car",
      "cdr", "length", "quote", "setf">>

\* mod.rs initialize() on the registry as it is, from the i-th register on
RECURSIVE operator_initialize(_, _)
operator_initialize(registry, i) ==
    IF i > Len(Registered) THEN registry
    ELSE operator_initialize(register(registry, Registered[i], RegistryInit[Registered[i]]),
                             i + 1)

\* a later Environment::initialize(): the registry is filled again and a
\* fresh Environment replaces the one in use
Initialize ==
    /\ steps < MaxSteps
    /\ OPERATOR_REGISTRY' = operator_initialize(OPERATOR_REGISTRY, 1)
    /\ env' = initialize
    /\ written' = initialize
    /\ op' = "initialize"
    /\ form' = NilList
    /\ result' = [ok |-> TRUE, val |-> NilList]
    /\ prev' = env
    /\ log' = <<>>
    /\ steps' = steps + 1
    /\ UNCHANGED <<GENSYM_COUNTER, text, main, locks>>

LifeForms ==
    { \* (defun + (a b) (- a b))
      Defun("+", <<Symbol("a"), Symbol("b")>>, Call("-", <<Symbol("a"), Symbol("b")>>)),
      \* (defun g (a) a)
      Defun("g", <<Symbol("a")>>, Symbol("a")),
      Setf("car", Number(1)),                               \* (setf car 1)
      Setf("h", Number(1)),                                 \* (setf h 1)
      \* (defmacro cdr (x) x)
      Defmacro("cdr", <<Symbol("x")>>, Symbol("x")),
      \* (defmacro w (x) x)
      Defmacro("w", <<Symbol("x")>>, Symbol("x")),
      Call("+", <<Number(1), Number(2)>>),                  \* (+ 1 2)
      Call("g", <<Number(1)>>),                             \* (g 1)
      Call("cdr", <<Quote(List12)>>),                       \* (cdr '(1 2))
      Call("h", <<>>),                                      \* (h)
      Call("gensym", <<>>),                                 \* (gensym)
      Call("register", <<Quote(Symbol("h")), Symbol("car")>>),  \* (register 'h car)
      Symbol("car") }                                       \* car

NextLife ==
    \/ \E raw \in LifeForms : ReadEval(raw)
    \/ Initialize

SpecLife == Init /\ [][NextLife]_vars

\* C27: the Operator Registry is the one the first Environment::initialize
\* left, and no step changes it: not a later Environment::initialize, which
\* registers the same pairs again, and not a read or an eval.
C27_RegistryNeverChanges ==
    /\ OPERATOR_REGISTRY = RegistryInit
    /\ operator_initialize(EmptyMap, 1) = RegistryInit
    /\ [][OPERATOR_REGISTRY' = OPERATOR_REGISTRY]_vars

\* a second Environment::initialize after a user function was stored under
\* the name + : the function is gone with its Environment and + is still
\* eval_add
C27_Witness ==
    /\ op = "initialize" /\ steps > 0
    /\ get_function(prev, "+") # None
    /\ get_function(env, "+") = None
    /\ OperatorRegistry_get("+") = Some("eval_add")


----------------------------------------------------------------------------
(* Claims about what an evaluation that fails leaves behind *)

\* (progn (setf a 4) zz)
SetAndFail == Progn(<<Setf("a", Number(4)), Symbol("zz")>>)

KeepForms ==
    { Progn(<<Setf("a", Number(1)), Call("car", <<Number(5)>>)>>),    \* (progn (setf a 1) (car 5))
      \* (progn (defun f () 1) zz)
      Progn(<<Defun("f", <<>>, Number(1)), Symbol("zz")>>),
      Call("+", <<Setf("a", Number(2)), Symbol("zz")>>),              \* (+ (setf a 2) zz)
      \* (cons (setf a 3) (car 5))
      Call("cons", <<Setf("a", Number(3)), Call("car", <<Number(5)>>)>>),
      \* (cond ((progn (setf a 4) zz) 1) (t a))
      Cond(<<Clause(SetAndFail, Number(1)), Clause(Symbol("t"), Symbol("a"))>>),
      \* (cond ((progn (defun f () 1) (car 5)) 1))
      Cond(<<Clause(Progn(<<Defun("f", <<>>, Number(1)), Call("car", <<Number(5)>>)>>),
                    Number(1))>>),
      \* (setf b (progn (setf a 4) zz))
      Setf("b", SetAndFail),
      \* (progn (setf b 2) (progn (setf a 4) zz))
      Progn(<<Setf("b", Number(2)), SetAndFail>>),
      Progn(<<Setf("a", Number(1)), Symbol("a")>>),                   \* (progn (setf a 1) a)
      Call("f", <<>>),                                                \* (f)
      Symbol("a"),                                                    \* a
      Symbol("b") }                                                   \* b

NextKeep ==
    \/ \E raw \in KeepForms : ReadEval(raw)
    \/ \E value \in {Number(10), List12} : SetSymbol("a", value)

SpecKeep == Init /\ [][NextKeep]_vars

\* the environment the sub-forms log[i] evaluated left
LeftBySubForms(i) ==
    IF NumChildren(i) = 0 THEN log[i].envIn
    ELSE log[Child(i, NumChildren(i))].envOut

\* C28: when an operator's evaluation returns an error, the environment is
\* the one the sub-forms evaluated before the failure left, with every
\* binding they wrote; a cond goes on from the environment a failed test
\* left; and the environment of the loop after a failed eval is the one the
\* eval left.
C28_ErrorsKeepBindings ==
    /\ \A i \in 1..Len(log) : (IsRegisteredCall(i) /\ ~log[i].ok) =>
           log[i].envOut = LeftBySubForms(i)
    /\ \A i \in 1..Len(log) : (log[i].fn = "eval" /\ HeadIs(log[i].ast, "cond")) =>
           /\ log[i].envOut = LeftBySubForms(i)
           /\ \A k \in 1..(NumChildren(i) - 1) :
                  log[Child(i, k + 1)].envIn = log[Child(i, k)].envOut
    /\ (op = "eval" /\ ~result.ok) => env = log[Len(log)].envOut

\* (progn (setf a 1) (car 5)) failed and a, unbound before, is bound to 1
C28_Witness ==
    /\ op = "eval"
    /\ form = Progn(<<Setf("a", Number(1)), Call("car", <<Number(5)>>)>>)
    /\ ~result.ok
    /\ get_symbol(prev, "a") = None
    /\ get_symbol(env, "a") = Some(Number(1))

\* the cond whose test bound a to 4 and then failed went on to the clause
\* (t a) and returned 4
C28_WitnessCond ==
    /\ op = "eval"
    /\ form = Cond(<<Clause(SetAndFail, Number(1)), Clause(Symbol("t"), Symbol("a"))>>)
    /\ result = [ok |-> TRUE, val |-> Number(4)]


----------------------------------------------------------------------------
(* Claims about definitions in a text whose read fails *)

\* (defmacro m () 1)
DefOne == Defmacro("m", <<>>, Number(1))
\* (defmacro k (x) x)
DefSame == Defmacro("k", <<Symbol("x")>>, Symbol("x"))

InstallForms ==
    { DefOne,
      Progn(<<DefOne, DefSame>>),               \* (progn (defmacro m () 1) (defmacro k (x) x))
      Quote(DefOne),                            \* (quote (defmacro m () 1))
      \* (progn (defmacro m () 1) (defmacro 5 () 1) (defmacro k (x) x))
      Progn(<<DefOne, Call("defmacro", <<Number(5), NilList, Number(1)>>), DefSame>>),
      \* (a (b (defmacro k () (defmacro m () 1))))
      Call("a", <<Call("b", <<Defmacro("k", <<>>, DefOne)>>)>>),
      \* (progn (defmacro k (x) x) (k))
      Progn(<<DefSame, Call("k", <<>>)>>),
      \* (progn (setf a 1) (defun f () 1) (defmacro m () 1))
      Progn(<<Setf("a", Number(1)), Defun("f", <<>>, Number(1)), DefOne>>) }

\* what may stand before and after the text of a form
Leads == {<<>>, <<"'">>}
Tails == {<<>>, <<" ", "x">>, <<")">>}

\* a direct Parser::read(input, env), as the tests make; rd is its Result
ReadInput(raw, input, rd) ==
    /\ steps < MaxSteps
    /\ op # "read"
    /\ env' = rd.env
    /\ result' = [ok |-> rd.ok, val |-> rd.val]
    /\ op' = "read"
    /\ form' = raw
    /\ text' = input
    /\ prev' = env
    /\ log' = <<>>
    /\ steps' = steps + 1
    /\ UNCHANGED <<GENSYM_COUNTER, OPERATOR_REGISTRY, written, main, locks>>

\* the read of the text of a form that is cut off after n characters
ReadCut(lead, raw, n) ==
    ReadInput(raw, lead \o SubSeq(fmt(raw), 1, n),
              read(lead \o SubSeq(fmt(raw), 1, n), env))

\* the read of the whole text of a form and of what comes after it
ReadWhole(lead, raw, tail) ==
    ReadInput(raw, lead \o fmt(raw) \o tail, read(lead \o fmt(raw) \o tail, env))

NextInstall ==
    \/ \E lead \in Leads, raw \in InstallForms :
           \E n \in 0..(Len(fmt(raw)) - 1) : ReadCut(lead, raw, n)
    \/ \E lead \in Leads, raw \in InstallForms, tail \in Tails : ReadWhole(lead, raw, tail)
    \/ \E name \in {"m", "q"} : op # "read" /\ SetMacro(name, Macro(<<>>, Number(7)))

SpecInstall == Init /\ [][NextInstall]_vars

\* the characters of the text before the form
LeadLen == IF text # <<>> /\ text[1] = "'" THEN 1 ELSE 0

\* the characters of the text up to the end of what it holds of the form
FormEnd ==
    IF Len(text) - LeadLen < Len(fmt(form)) THEN Len(text) ELSE LeadLen + Len(fmt(form))

\* a list headed by defmacro that parse_defmacro refuses
Malformed(x) ==
    x.tag = "List" /\ x.items # <<>> /\ x.items[1] = Symbol("defmacro") /\ ~IsDefmacro(x)

\* the positions of the closing parentheses of the malformed definitions in
\* x, whose text starts after character start
RECURSIVE MalformedEnds(_, _)
RECURSIVE MalformedEndsOfItems(_, _, _)
MalformedEndsOfItems(items, k, start) ==
    IF k > Len(items) THEN {}
    ELSE MalformedEnds(items[k], start)
         \cup MalformedEndsOfItems(items, k + 1, start + Len(fmt(items[k])) + 1)

MalformedEnds(x, start) ==
    IF x.tag # "List" THEN {}
    ELSE (IF Malformed(x) THEN {start + Len(fmt(x))} ELSE {})
         \cup MalformedEndsOfItems(x.items, 1, start + 1)

\* the last character read before the read failed or ended
ReadUpTo ==
    LET ends == {p \in MalformedEnds(form, LeadLen) : p <= FormEnd}
    IN IF ends = {} THEN FormEnd
       ELSE (CHOOSE p \in ends : \A q \in ends : p <= q) - 1

\* the macro table the definitions of x leave whose closing parenthesis is
\* at or before character cut, in the order of their closing parentheses
RECURSIVE InstalledBy(_, _, _, _)
RECURSIVE InstalledByItems(_, _, _, _, _)
InstalledByItems(items, k, start, cut, macros) ==
    IF k > Len(items) THEN macros
    ELSE InstalledByItems(items, k + 1, start + Len(fmt(items[k])) + 1, cut,
                          InstalledBy(items[k], start, cut, macros))

InstalledBy(x, start, cut, macros) ==
    IF x.tag # "List" THEN macros
    ELSE LET inner == InstalledByItems(x.items, 1, start + 1, cut, macros)
         IN IF IsDefmacro(x) /\ start + Len(fmt(x)) <= cut
            THEN Put(inner, x.items[2].name,
                     Macro(AsRead(x.items[3]).items, AsRead(x.items[4])))
            ELSE inner

\* C29: when read returns an error, the macro table is the one before the
\* read plus the macros of the definitions, at any depth, whose closing
\* parenthesis was read before the error, those of a text that fails the
\* check for trailing input or the macro expansion included; the value and
\* function tables are as before.
C29_DefmacroInstalledAtClose ==
    (op = "read" /\ ~result.ok) =>
        /\ env.macros = InstalledBy(form, LeadLen, ReadUpTo, prev.macros)
        /\ env.symbols = prev.symbols
        /\ env.functions = prev.functions

\* (progn (defmacro m () 1) (defmacro k (x) x) was read up to the end of
\* its first definition: the read failed, m is bound and k is not
C29_Witness ==
    /\ op = "read" /\ form = Progn(<<DefOne, DefSame>>)
    /\ text = SubSeq(fmt(form), 1, Len(fmt(DefOne)) + 4)
    /\ ~result.ok
    /\ get_macro(prev, "m") = None
    /\ get_macro(env, "m") = Some(Macro(<<>>, Number(1)))
    /\ get_macro(env, "k") = None


----------------------------------------------------------------------------
(* Claims about the two Mutexes.  The evaluation of a form is followed call  *)
(* by call: each frame of stack is a call of Evaluator::eval with the place  *)
(* it has reached, the calls of OperatorRegistry::get and of the operator    *)
(* being part of it.  Values are left out; what is followed is which Mutex   *)
(* is locked at which place.                                                 *)

\* a MutexGuard that is never dropped
unlock_never(mutexes, mutex) == mutexes

\* Mutex::lock, once the Mutex is free
lock(mutexes, mutex) == mutexes \cup {mutex}

\* the MutexGuard dropped at the end of the function that took it
unlock(mutexes, mutex) == mutexes \ {mutex}

LockForms ==
    { Call("gensym", <<>>),                                           \* (gensym)
      \* (+ 1 (progn (gensym) 2))
      Call("+", <<Number(1), Progn(<<Call("gensym", <<>>), Number(2)>>)>>),
      \* (cons (gensym) (car (quote (1 2))))
      Call("cons", <<Call("gensym", <<>>), Call("car", <<Quote(List12)>>)>>),
      \* (progn (f (gensym)) (gensym))
      Progn(<<Call("f", <<Call("gensym", <<>>)>>), Call("gensym", <<>>)>>),
      Symbol("a"),                                                    \* a
      NilList }                                                       \* ()

Frame(ast, pc, k) == [ast |-> ast, pc |-> pc, k |-> k]
Top == stack[Len(stack)]
Return == SubSeq(stack, 1, Len(stack) - 1)
Goto(pc) == [stack EXCEPT ![Len(stack)].pc = pc]

\* the operators that evaluate every argument, in order
EvaluatesAll == {"+", "-", "*", "/", "progn", "cons", "car", "cdr", "length"}

\* Evaluator::eval is called on a form at the top level
Enter(raw) ==
    /\ stack = <<>>
    /\ steps < MaxSteps
    /\ stack' = <<Frame(raw, "eval", 1)>>
    /\ form' = raw
    /\ op' = "enter"
    /\ steps' = steps + 1
    /\ UNCHANGED <<env, GENSYM_COUNTER, OPERATOR_REGISTRY, text, result, prev, log,
                   written, main, locked>>

\* Evaluator::eval, the match on ast: a Symbol, a number, a string and the
\* empty list return at once; a list headed by a Symbol calls
\* OperatorRegistry::get
Match ==
    /\ stack # <<>> /\ Top.pc = "eval"
    /\ stack' = IF Top.ast.tag = "List" /\ Top.ast.items # <<>>
                   /\ Top.ast.items[1].tag = "Symbol"
                THEN Goto("get")
                ELSE Return
    /\ op' = "match"
    /\ UNCHANGED <<env, GENSYM_COUNTER, OPERATOR_REGISTRY, form, text, result, prev,
                   log, written, steps, main, locked>>

\* OperatorRegistry::get: OPERATOR_REGISTRY.lock().unwrap(), which waits for
\* the Mutex to be free
GetLock ==
    /\ stack # <<>> /\ Top.pc = "get"
    /\ "OPERATOR_REGISTRY" \notin locked
    /\ locked' = lock(locked, "OPERATOR_REGISTRY")
    /\ stack' = Goto("copied")
    /\ op' = "lock"
    /\ UNCHANGED <<env, GENSYM_COUNTER, OPERATOR_REGISTRY, form, text, result, prev,
                   log, written, steps, main>>

\* OperatorRegistry::get returns the copied Option<OperatorFn>: its guard is
\* dropped; eval goes on to the operator, or to eval_function_call, which
\* finds no function and returns the error
GetReturn ==
    /\ stack # <<>> /\ Top.pc = "copied"
    /\ locked' = unlock(locked, "OPERATOR_REGISTRY")
    /\ stack' = IF OperatorRegistry_get(Top.ast.items[1].name).some
                THEN Goto("operator")
                ELSE Return
    /\ op' = "unlock"
    /\ UNCHANGED <<env, GENSYM_COUNTER, OPERATOR_REGISTRY, form, text, result, prev,
                   log, written, steps, main>>

\* the operator evaluates its next argument: Evaluator::eval is called on it
Argument ==
    /\ stack # <<>> /\ Top.pc = "operator"
    /\ Top.ast.items[1].name \in EvaluatesAll
    /\ Top.k < Len(Top.ast.items)
    /\ stack' = Append([stack EXCEPT ![Len(stack)].k = @ + 1],
                       Frame(Top.ast.items[Top.k + 1], "eval", 1))
    /\ op' = "argument"
    /\ UNCHANGED <<env, GENSYM_COUNTER, OPERATOR_REGISTRY, form, text, result, prev,
                   log, written, steps, main, locked>>

\* the operator returns: quote at once, the others after their last argument
OperatorReturn ==
    /\ stack # <<>> /\ Top.pc = "operator"
    /\ \/ Top.ast.items[1].name = "quote"
       \/ Top.ast.items[1].name \in EvaluatesAll /\ Top.k >= Len(Top.ast.items)
    /\ stack' = Return
    /\ op' = "return"
    /\ UNCHANGED <<env, GENSYM_COUNTER, OPERATOR_REGISTRY, form, text, result, prev,
                   log, written, steps, main, locked>>

\* eval_gensym: GENSYM_COUNTER.lock().unwrap()
GensymLock ==
    /\ stack # <<>> /\ Top.pc = "operator"
    /\ Top.ast.items[1].name = "gensym"
    /\ "GENSYM_COUNTER" \notin locked
    /\ locked' = lock(locked, "GENSYM_COUNTER")
    /\ stack' = Goto("counted")
    /\ op' = "lock"
    /\ UNCHANGED <<env, GENSYM_COUNTER, OPERATOR_REGISTRY, form, text, result, prev,
                   log, written, steps, main>>

\* eval_gensym: fetch_add(1), and the guard is dropped as it returns
GensymReturn ==
    /\ stack # <<>> /\ Top.pc = "counted"
    /\ GENSYM_COUNTER < MaxGensym
    /\ GENSYM_COUNTER' = GENSYM_COUNTER + 1
    /\ locked' = unlock(locked, "GENSYM_COUNTER")
    /\ stack' = Return
    /\ op' = "unlock"
    /\ UNCHANGED <<env, OPERATOR_REGISTRY, form, text, result, prev, log, written,
                   steps, main>>

NextLocks ==
    \/ \E raw \in LockForms : Enter(raw)
    \/ Match
    \/ GetLock
    \/ GetReturn
    \/ Argument
    \/ OperatorReturn
    \/ GensymLock
    \/ GensymReturn

SpecLocks == Init /\ [][NextLocks]_vars

\* the calls of Evaluator::eval in progress that have called their operator
Invoked == {i \in 1..Len(stack) : stack[i].pc = "operator"}

\* C30: no Mutex is locked while an expression is being evaluated: when
\* Evaluator::eval is entered, when an operator runs and evaluates its
\* arguments, and when no evaluation is in progress, neither is locked; so a
\* call that is about to lock a Mutex, at any depth of nested evaluation,
\* finds it free.
C30_NoLockHeldDuringEval ==
    /\ stack = <<>> => locked = {}
    /\ stack # <<>> =>
          /\ Top.pc \in {"eval", "get", "operator"} => locked = {}
          /\ Top.pc = "copied" => locked = {"OPERATOR_REGISTRY"}
          /\ Top.pc = "counted" => locked = {"GENSYM_COUNTER"}

\* gensym is about to lock the counter three evaluations deep, inside the
\* operators + and progn, and both Mutexes are free
C30_Witness ==
    /\ Len(stack) = 3
    /\ Invoked = {1, 2, 3}
    /\ Top.ast = Call("gensym", <<>>)
    /\ stack[1].ast.items[1] = Symbol("+")
    /\ locked = {}

====
